---- MODULE Spec2Model ----
(***************************************************************************)
(* Model of the digitized A/V packaging pipeline (src/src/package.py).     *)
(*                                                                         *)
(* Text (str) values are sequences of one-character strings; a local path  *)
(* (pathlib.Path) is the sequence of its components, an absolute path      *)
(* starting with the component Root, as in pathlib's .parts.               *)
(***************************************************************************)
EXTENDS Integers, Sequences, FiniteSets, TLC

VARIABLES
    tmp_dir,      \* self.tmp_dir: the configured temp root (text)
    format,       \* self.format: Unset until parse_format has returned
    source,       \* keys of the objects in the source bucket
    source0,      \* history: the source bucket when run() started
    catalog,      \* refs of the catalog records whose ref_id is the reference id
    files,        \* local file system: paths of the regular files
    dirs,         \* local file system: paths of the directories
    tarEntries,   \* entries of the local archive file (when it exists)
    bagInfo,      \* metadata handed to the bag tool (NoInfo before that)
    dest,         \* objects in the destination buckets
    notes,        \* notifications published to the topic, in order
    downloaded,   \* run(): the list returned by download_files
    compressed,   \* run(): the path returned by compress_bag
    err,          \* run(): text of the exception caught (NoErr when none)
    pc,           \* run(): the statement about to be executed
    log,          \* history: stages attempted so far, with their outcome
    requests,     \* history: URLs requested from the catalog, in order
    invocation,   \* number of the invocation of run() in progress
    written,      \* history: source keys written by another party
    fn, arg, ret  \* a single call of a pure method: name, input, result

vars == <<tmp_dir, format, source, source0, catalog, files, dirs, tarEntries,
          bagInfo, dest, notes, downloaded, compressed, err, pc, log,
          requests, invocation, written, fn, arg, ret>>

runVars == <<tmp_dir, format, source, source0, catalog, files, dirs,
             tarEntries, bagInfo, dest, notes, downloaded, compressed, err,
             pc, log, requests, invocation, written>>

callVars == <<fn, arg, ret>>

-----------------------------------------------------------------------------
(* Bounds of the model.                                                    *)

MaxFiles == 4
MaxMatches == 2
MaxRights == 4

-----------------------------------------------------------------------------
(* Text and path primitives.                                               *)

RECURSIVE SplitOn(_, _)
SplitOn(s, ch) ==
    IF s = <<>> THEN << <<>> >>
    ELSE LET rest == SplitOn(Tail(s), ch)
         IN  IF Head(s) = ch
             THEN << <<>> >> \o rest
             ELSE << <<Head(s)>> \o Head(rest) >> \o Tail(rest)

RECURSIVE JoinWith(_, _)
JoinWith(parts, sep) ==
    IF parts = <<>> THEN <<>>
    ELSE IF Len(parts) = 1 THEN parts[1]
    ELSE parts[1] \o sep \o JoinWith(Tail(parts), sep)

RECURSIVE LStrip(_)
LStrip(s) == IF s # <<>> /\ Head(s) = " " THEN LStrip(Tail(s)) ELSE s

RECURSIVE RStrip(_)
RStrip(s) ==
    IF s # <<>> /\ s[Len(s)] = " " THEN RStrip(SubSeq(s, 1, Len(s) - 1)) ELSE s

Strip(s) == RStrip(LStrip(s))

StartsWith(s, prefix) ==
    /\ Len(prefix) <= Len(s)
    /\ SubSeq(s, 1, Len(prefix)) = prefix

Root == <<"/">>

IsAbsText(s) == s # <<>> /\ s[1] = "/"

IsRealPart(c) == c # <<>> /\ c # <<".">>

PurePath(s) ==
    (IF IsAbsText(s) THEN <<Root>> ELSE <<>>)
        \o SelectSeq(SplitOn(s, "/"), IsRealPart)

PathJoin(p, s) == IF IsAbsText(s) THEN PurePath(s) ELSE p \o PurePath(s)

PathStr(p) ==
    IF p = <<>> THEN <<".">>
    ELSE IF Head(p) = Root THEN <<"/">> \o JoinWith(Tail(p), <<"/">>)
    ELSE JoinWith(p, <<"/">>)

PathName(p) == IF p = <<>> \/ p = <<Root>> THEN <<>> ELSE p[Len(p)]

PathParent(p) == IF p = <<>> \/ p = <<Root>> THEN p ELSE SubSeq(p, 1, Len(p) - 1)

LastDot(name) ==
    LET idx == {i \in 1..Len(name) : name[i] = "."}
    IN  IF idx = {} THEN 0 ELSE CHOOSE i \in idx : \A j \in idx : j <= i

PathSuffix(p) ==
    LET name == PathName(p)
        i == LastDot(name)
    IN  IF 1 < i /\ i < Len(name) THEN SubSeq(name, i, Len(name)) ELSE <<>>

IsUnder(p, d) == Len(p) > Len(d) /\ SubSeq(p, 1, Len(d)) = d

IsChild(p, d) == Len(p) = Len(d) + 1 /\ SubSeq(p, 1, Len(d)) = d

-----------------------------------------------------------------------------
(* Configuration of one invocation.                                        *)

RefId == <<"r", "1">>

RightsInput == <<"1", ",", " ", "2">>

SourceBucket == "source"
DestinationBucket == "destination"
DestinationBucketVideoMezzanine == "destination_video_mezz"
DestinationBucketVideoAccess == "destination_video_access"
DestinationBucketAudioAccess == "destination_audio_access"
DestinationBucketPoster == "destination_poster"

TmpDot == <<".">>
TmpRel == <<"t", "m", "p">>
TmpAbs == <<"/", "t", "m", "p">>
TmpDirs == {TmpDot, TmpRel, TmpAbs}

Unset == "unset"
NoErr == "none"
NoPath == << <<"?">> >>
NoRet == [done |-> FALSE, val |-> "none"]
Raised == "raised"
NoInfo == [Origin |-> "none"]

(* File names and source keys (src/src/package.py:123,139-148; the test     *)
(* fixtures of src/tests/test_package.py:97-103).                           *)
MaNameWav == RefId \o <<"_", "m", "a", ".", "w", "a", "v">>
MaNameMkv == RefId \o <<"_", "m", "a", ".", "m", "k", "v">>
MeNameMov == RefId \o <<"_", "m", "e", ".", "m", "o", "v">>
ANameMp3 == RefId \o <<"_", "a", ".", "m", "p", "3">>
ANameMp4 == RefId \o <<"_", "a", ".", "m", "p", "4">>
PosterName == <<"p", "o", "s", "t", "e", "r", ".", "p", "n", "g">>
TarGz == <<".", "t", "a", "r", ".", "g", "z">>

KeyIn(name) == RefId \o <<"/">> \o name
KeyStray == RefId \o <<"x", ".", "m", "p", "3">>
KeyOther == <<"r", "2", "/", "f", "o", "o">>

(* The keys a source bucket may hold, in the order a listing returns them   *)
(* (ascending by bytes).                                                    *)
KeyOrder ==
    << KeyIn(ANameMp3), KeyIn(ANameMp4), KeyIn(MaNameMkv), KeyIn(MaNameWav),
       KeyIn(MeNameMov), KeyStray, KeyOther >>

KeyUniverse == {KeyOrder[i] : i \in 1..Len(KeyOrder)}

Uris == {"/repositories/2/archival_objects/1",
         "/repositories/2/archival_objects/2"}

RECURSIVE SeqsUpTo(_, _)
SeqsUpTo(S, n) ==
    IF n = 0 THEN {<<>>}
    ELSE LET shorter == SeqsUpTo(S, n - 1)
         IN  shorter \cup {Append(s, x) : s \in shorter, x \in S}

RECURSIVE SetToSeq(_)
SetToSeq(S) ==
    IF S = {} THEN <<>>
    ELSE LET x == CHOOSE y \in S : TRUE IN <<x>> \o SetToSeq(S \ {x})

SeqToSet(s) == {s[i] : i \in 1..Len(s)}

-----------------------------------------------------------------------------
(* Packager.__init__                                                       *)

RECURSIVE MapStrip(_)
MapStrip(parts) ==
    IF parts = <<>> THEN <<>> ELSE <<Strip(Head(parts))>> \o MapStrip(Tail(parts))

(* Faulty variant: the items are not stripped.                              *)
split_rights_ids_raw(rights_input) == SplitOn(rights_input, ",")

(* [r.strip() for r in rights_ids.split(',')]                               *)
split_rights_ids(rights_input) == MapStrip(SplitOn(rights_input, ","))

rights_ids == split_rights_ids(RightsInput)

as_repo == <<"2">>

BagDir == PathJoin(PurePath(tmp_dir), RefId)

-----------------------------------------------------------------------------
(* Packager.download_files                                                 *)

ListObjects(src, prefix) ==
    SelectSeq(KeyOrder, LAMBDA k : k \in src /\ StartsWith(k, prefix))

DownloadTarget(key) == PurePath(tmp_dir \o <<"/">> \o key)

(* s3.download_file for listing[i..]: fs is the set of files written so    *)
(* far; the call numbered `fault` fails in transfer.                        *)
RECURSIVE DownloadLoop(_, _, _, _, _)
DownloadLoop(listing, i, fs, ds, fault) ==
    IF i > Len(listing) THEN [ok |-> TRUE, err |-> "none", files |-> fs]
    ELSE LET target == DownloadTarget(listing[i])
         IN  IF fault = i
             THEN [ok |-> FALSE, err |-> "TransferError: download", files |-> fs]
             ELSE IF PathParent(target) \notin ds \/ target \in ds
             THEN [ok |-> FALSE, err |-> "FileNotFoundError", files |-> fs]
             ELSE DownloadLoop(listing, i + 1, fs \cup {target}, ds, fault)

(* Path(base).glob(pattern) for a pattern whose last component is "*".      *)
Glob(base, pattern, fs, ds) ==
    LET d == PurePath(base) \o PathParent(PurePath(pattern))
    IN  {p \in fs \cup ds : IsChild(p, d)}

(* Faulty variant: an empty listing is taken as nothing to download.        *)
download_files_empty_ok(bag_dir, fault) ==
    LET ds == dirs \cup {bag_dir}
        listing == ListObjects(source, RefId)
        loop == DownloadLoop(listing, 1, files, ds, fault)
        pattern == PathStr(bag_dir) \o <<"/", "*">>
    IN  IF fault = -1
        THEN [ok |-> FALSE, err |-> "TransferError: list", files |-> files,
              dirs |-> ds, ret |-> <<>>]
        ELSE IF ~loop.ok
        THEN [ok |-> FALSE, err |-> loop.err, files |-> loop.files,
              dirs |-> ds, ret |-> <<>>]
        ELSE IF IsAbsText(pattern)
        THEN [ok |-> FALSE, err |-> "Non-relative patterns are unsupported",
              files |-> loop.files, dirs |-> ds, ret |-> <<>>]
        ELSE [ok |-> TRUE, err |-> "none", files |-> loop.files, dirs |-> ds,
              ret |-> SetToSeq(Glob(tmp_dir, pattern, loop.files, ds))]

(* fault: 0 none, -1 the listing call fails, i >= 1 the i-th download.      *)
download_files(bag_dir, fault) ==
    LET ds == dirs \cup {bag_dir}
        listing == ListObjects(source, RefId)
        loop == DownloadLoop(listing, 1, files, ds, fault)
        pattern == PathStr(bag_dir) \o <<"/", "*">>
    IN  IF fault = -1
        THEN [ok |-> FALSE, err |-> "TransferError: list", files |-> files,
              dirs |-> ds, ret |-> <<>>]
        ELSE IF listing = <<>>
        THEN [ok |-> FALSE, err |-> "'Contents'", files |-> files,
              dirs |-> ds, ret |-> <<>>]
        ELSE IF ~loop.ok
        THEN [ok |-> FALSE, err |-> loop.err, files |-> loop.files,
              dirs |-> ds, ret |-> <<>>]
        ELSE IF IsAbsText(pattern)
        THEN [ok |-> FALSE, err |-> "Non-relative patterns are unsupported",
              files |-> loop.files, dirs |-> ds, ret |-> <<>>]
        ELSE [ok |-> TRUE, err |-> "none", files |-> loop.files, dirs |-> ds,
              ret |-> SetToSeq(Glob(tmp_dir, pattern, loop.files, ds))]

-----------------------------------------------------------------------------
(* Packager.parse_format                                                   *)

Mp3 == <<".", "m", "p", "3">>
Mp4 == <<".", "m", "p", "4">>

(* Faulty variant: every file, not some file, must carry the extension.             *)
parse_format_all(file_list) ==
    IF Len(file_list) = 2
       /\ \A i \in 1..Len(file_list) : PathSuffix(file_list[i]) = Mp3
    THEN "audio"
    ELSE IF Len(file_list) = 3
            /\ \A i \in 1..Len(file_list) : PathSuffix(file_list[i]) = Mp4
    THEN "video"
    ELSE Raised

parse_format(file_list) ==
    IF Len(file_list) = 2
       /\ \E i \in 1..Len(file_list) : PathSuffix(file_list[i]) = Mp3
    THEN "audio"
    ELSE IF Len(file_list) = 3
            /\ \E i \in 1..Len(file_list) : PathSuffix(file_list[i]) = Mp4
    THEN "video"
    ELSE Raised

-----------------------------------------------------------------------------
(* Packager.create_poster                                                  *)

(* fault: 0 none, 1 the frame extraction tool fails.                        *)
create_poster(bag_dir, fault) ==
    IF format = "video"
    THEN IF fault = 1
         THEN [ok |-> FALSE, err |-> "ffmpeg.Error: tool", files |-> files]
         ELSE IF (bag_dir \o <<ANameMp4>>) \notin files
         THEN [ok |-> FALSE, err |-> "ffmpeg.Error: no input", files |-> files]
         ELSE [ok |-> TRUE, err |-> NoErr,
               files |-> files \cup {bag_dir \o <<PosterName>>}]
    ELSE [ok |-> TRUE, err |-> NoErr, files |-> files]

-----------------------------------------------------------------------------
(* Packager.derivative_map and Packager.deliver_derivatives                *)

(* Faulty variant: the video descriptors with access and mezzanine exchanged.       *)
derivative_map_swapped ==
    LET bag_path == PathJoin(PurePath(tmp_dir), RefId)
    IN  IF format = "video"
        THEN << [path |-> bag_path \o <<ANameMp4>>,
                 bucket |-> DestinationBucketVideoAccess,
                 content_type |-> "video/mp4"],
                [path |-> bag_path \o <<MeNameMov>>,
                 bucket |-> DestinationBucketVideoMezzanine,
                 content_type |-> "video/quicktime"],
                [path |-> bag_path \o <<PosterName>>,
                 bucket |-> DestinationBucketPoster,
                 content_type |-> "image/x-png"] >>
        ELSE << [path |-> bag_path \o <<ANameMp3>>,
                 bucket |-> DestinationBucketAudioAccess,
                 content_type |-> "audio/mpeg"] >>

derivative_map ==
    LET bag_path == PathJoin(PurePath(tmp_dir), RefId)
    IN  IF format = "video"
        THEN << [path |-> bag_path \o <<MeNameMov>>,
                 bucket |-> DestinationBucketVideoMezzanine,
                 content_type |-> "video/quicktime"],
                [path |-> bag_path \o <<ANameMp4>>,
                 bucket |-> DestinationBucketVideoAccess,
                 content_type |-> "video/mp4"],
                [path |-> bag_path \o <<PosterName>>,
                 bucket |-> DestinationBucketPoster,
                 content_type |-> "image/x-png"] >>
        ELSE << [path |-> bag_path \o <<ANameMp3>>,
                 bucket |-> DestinationBucketAudioAccess,
                 content_type |-> "audio/mpeg"] >>

(* s3.upload_file: the object replaces any object of the same bucket and key. *)
PutObject(objects, obj) ==
    {o \in objects : ~(o.bucket = obj.bucket /\ o.key = obj.key)} \cup {obj}

(* Faulty variant: the key is the reference id alone.                       *)
DerivativeObject_no_suffix(d) ==
    [bucket |-> d.bucket, key |-> RefId,
     content_type |-> d.content_type, body |-> d.path, entries |-> {}]

(* Faulty variant: the key is the name of the local file.                   *)
DerivativeObject_by_name(d) ==
    [bucket |-> d.bucket, key |-> PathName(d.path),
     content_type |-> d.content_type, body |-> d.path, entries |-> {}]

DerivativeObject(d) ==
    [bucket |-> d.bucket, key |-> RefId \o PathSuffix(d.path),
     content_type |-> d.content_type, body |-> d.path, entries |-> {}]

(* Faulty variant: the local file is unlinked before its upload.            *)
RECURSIVE DeliverLoop_unlink_first(_, _, _, _, _)
DeliverLoop_unlink_first(to_upload, i, fs, objects, fault) ==
    IF i > Len(to_upload)
    THEN [ok |-> TRUE, err |-> NoErr, files |-> fs, dest |-> objects]
    ELSE IF fault = i
    THEN [ok |-> FALSE, err |-> "TransferError: upload",
          files |-> fs \ {to_upload[i].path}, dest |-> objects]
    ELSE IF to_upload[i].path \notin fs
    THEN [ok |-> FALSE, err |-> "FileNotFoundError", files |-> fs,
          dest |-> objects]
    ELSE DeliverLoop_unlink_first(to_upload, i + 1, fs \ {to_upload[i].path},
                     PutObject(objects, DerivativeObject(to_upload[i])), fault)

(* The loop of deliver_derivatives from descriptor i on; the upload numbered *)
(* `fault` fails in transfer.                                               *)
RECURSIVE DeliverLoop(_, _, _, _, _)
DeliverLoop(to_upload, i, fs, objects, fault) ==
    IF i > Len(to_upload)
    THEN [ok |-> TRUE, err |-> NoErr, files |-> fs, dest |-> objects]
    ELSE IF fault = i
    THEN [ok |-> FALSE, err |-> "TransferError: upload", files |-> fs,
          dest |-> objects]
    ELSE IF to_upload[i].path \notin fs
    THEN [ok |-> FALSE, err |-> "FileNotFoundError", files |-> fs,
          dest |-> objects]
    ELSE DeliverLoop(to_upload, i + 1, fs \ {to_upload[i].path},
                     PutObject(objects, DerivativeObject(to_upload[i])), fault)

deliver_derivatives(fault) == DeliverLoop(derivative_map, 1, files, dest, fault)

-----------------------------------------------------------------------------
(* Packager.uri_from_refid                                                 *)

find_by_refid_url(refid) ==
    <<"r", "e", "p", "o", "s", "i", "t", "o", "r", "i", "e", "s", "/">>
        \o as_repo
        \o <<"/", "f", "i", "n", "d", "_", "b", "y", "_", "i", "d", "/",
             "a", "r", "c", "h", "i", "v", "a", "l", "_", "o", "b", "j", "e",
             "c", "t", "s", "?", "r", "e", "f", "_", "i", "d", "[", "]", "=">>
        \o refid

(* The catalog's answer: the records whose ref_id is the one in the URL.    *)
AsClientGet(url) ==
    [archival_objects |->
        IF url = find_by_refid_url(RefId) THEN catalog ELSE <<>>]

(* Faulty variant: the first match is returned whenever there is one.               *)
uri_from_refid_first(refid) ==
    LET results == AsClientGet(find_by_refid_url(refid))
    IN  IF Len(results.archival_objects) >= 1
        THEN results.archival_objects[1]
        ELSE Raised

uri_from_refid(refid) ==
    LET results == AsClientGet(find_by_refid_url(refid))
    IN  IF Len(results.archival_objects) = 1
        THEN results.archival_objects[1]
        ELSE Raised

-----------------------------------------------------------------------------
(* Packager.format_aspace_date                                             *)

Digits == <<"0", "1", "2", "3", "4", "5", "6", "7", "8", "9">>

IsDigit(c) == \E i \in 1..Len(Digits) : Digits[i] = c

DigitVal(c) == (CHOOSE i \in 1..Len(Digits) : Digits[i] = c) - 1

AllDigits(s) == \A i \in 1..Len(s) : IsDigit(s[i])

RECURSIVE ToInt(_)
ToInt(s) ==
    IF s = <<>> THEN 0
    ELSE ToInt(SubSeq(s, 1, Len(s) - 1)) * 10 + DigitVal(s[Len(s)])

RECURSIVE ToText(_, _)
ToText(n, width) ==
    IF width = 0 THEN <<>>
    ELSE ToText(n \div 10, width - 1) \o <<Digits[(n % 10) + 1]>>

IsLeap(y) == y % 4 = 0 /\ (y % 100 # 0 \/ y % 400 = 0)

DaysIn(y, m) ==
    IF m = 2 THEN (IF IsLeap(y) THEN 29 ELSE 28)
    ELSE IF m \in {4, 6, 9, 11} THEN 30 ELSE 31

ValidDate(y, m, d) ==
    /\ y >= 1
    /\ m \in 1..12
    /\ d >= 1
    /\ d <= DaysIn(y, m)

BadDate == [ok |-> FALSE, y |-> 0, m |-> 0, d |-> 0]

MkDate(y, m, d) ==
    IF ValidDate(y, m, d) THEN [ok |-> TRUE, y |-> y, m |-> m, d |-> d]
    ELSE BadDate

(* dateutil.parser.isoparse on the date forms YYYY, YYYY-MM, YYYY-MM-DD and *)
(* YYYYMMDD; any other text of the model's date texts is rejected.          *)
isoparse(s) ==
    IF Len(s) = 4 /\ AllDigits(s)
    THEN MkDate(ToInt(s), 1, 1)
    ELSE IF Len(s) = 7 /\ s[5] = "-" /\ AllDigits(SubSeq(s, 1, 4))
            /\ AllDigits(SubSeq(s, 6, 7))
    THEN MkDate(ToInt(SubSeq(s, 1, 4)), ToInt(SubSeq(s, 6, 7)), 1)
    ELSE IF Len(s) = 10 /\ s[5] = "-" /\ s[8] = "-"
            /\ AllDigits(SubSeq(s, 1, 4)) /\ AllDigits(SubSeq(s, 6, 7))
            /\ AllDigits(SubSeq(s, 9, 10))
    THEN MkDate(ToInt(SubSeq(s, 1, 4)), ToInt(SubSeq(s, 6, 7)),
                ToInt(SubSeq(s, 9, 10)))
    ELSE IF Len(s) = 8 /\ AllDigits(s)
    THEN MkDate(ToInt(SubSeq(s, 1, 4)), ToInt(SubSeq(s, 5, 6)),
                ToInt(SubSeq(s, 7, 8)))
    ELSE BadDate

(* strftime('%Y-%m-%d') *)
strftime(dt) ==
    ToText(dt.y, 4) \o <<"-">> \o ToText(dt.m, 2) \o <<"-">> \o ToText(dt.d, 2)

(* Faulty variant: the day is not clamped to the length of the month.       *)
RelativeDelta_unclamped(dt, month, day) ==
    [ok |-> TRUE, y |-> dt.y, m |-> IF month = 0 THEN dt.m ELSE month,
     d |-> day]

(* dt + relativedelta(month=.., day=..): absolute fields, the day clamped   *)
(* to the length of the month.                                              *)
RelativeDelta(dt, month, day) ==
    LET m == IF month = 0 THEN dt.m ELSE month
        d == IF day > DaysIn(dt.y, m) THEN DaysIn(dt.y, m) ELSE day
    IN  [ok |-> TRUE, y |-> dt.y, m |-> m, d |-> d]

(* Faulty variant: a single date is returned as both begin and end.         *)
format_aspace_date_single_same(dates) ==
    LET begin_date == dates.begin
        end_date == IF dates.date_type = "single" THEN begin_date ELSE dates.end
        parsed_begin == isoparse(begin_date)
        parsed_end == isoparse(end_date)
    IN  IF ~parsed_begin.ok \/ ~parsed_end.ok
        THEN Raised
        ELSE IF dates.date_type = "single"
        THEN << strftime(parsed_begin), strftime(parsed_begin) >>
        ELSE << strftime(parsed_begin),
                IF Len(end_date) = 4
                THEN strftime(RelativeDelta(parsed_end, 12, 31))
                ELSE IF Len(end_date) = 7
                THEN strftime(RelativeDelta(parsed_end, 0, 31))
                ELSE end_date >>

format_aspace_date(dates) ==
    LET begin_date == dates.begin
        end_date == IF dates.date_type = "single" THEN begin_date ELSE dates.end
        parsed_begin == isoparse(begin_date)
        parsed_end == isoparse(end_date)
    IN  IF ~parsed_begin.ok \/ ~parsed_end.ok
        THEN Raised
        ELSE << strftime(parsed_begin),
                IF Len(end_date) = 4
                THEN strftime(RelativeDelta(parsed_end, 12, 31))
                ELSE IF Len(end_date) = 7
                THEN strftime(RelativeDelta(parsed_end, 0, 31))
                ELSE end_date >>

-----------------------------------------------------------------------------
(* Packager.create_bag                                                     *)

DataDir == <<"d", "a", "t", "a">>

TagFiles ==
    { <<"b", "a", "g", "i", "t", ".", "t", "x", "t">>,
      <<"b", "a", "g", "-", "i", "n", "f", "o", ".", "t", "x", "t">>,
      <<"m", "a", "n", "i", "f", "e", "s", "t", "-", "s", "h", "a", "2", "5", "6", ".", "t", "x", "t">>,
      <<"m", "a", "n", "i", "f", "e", "s", "t", "-", "s", "h", "a", "5", "1", "2", ".", "t", "x", "t">>,
      <<"t", "a", "g", "m", "a", "n", "i", "f", "e", "s", "t", "-", "s", "h", "a", "2", "5", "6", ".", "t", "x", "t">>,
      <<"t", "a", "g", "m", "a", "n", "i", "f", "e", "s", "t", "-", "s", "h", "a", "5", "1", "2", ".", "t", "x", "t">> }

RelativeTo(p, d) == SubSeq(p, Len(d) + 1, Len(p))

(* bagit.make_bag: the payload moves under data/, the tag files are written. *)
MakeBag(paths, bag_dir, tags) ==
    {p \in paths : ~IsUnder(p, bag_dir)}
        \cup {bag_dir \o <<DataDir>> \o RelativeTo(p, bag_dir) :
                  p \in {q \in paths : IsUnder(q, bag_dir)}}
        \cup {bag_dir \o <<t>> : t \in tags}

(* Faulty variant: the bag tool is invoked whatever the lookup returned.     *)
create_bag_unresolved(bag_dir, rights, dates, fault) ==
    LET obj_uri == uri_from_refid(PathStr(bag_dir))
        formatted == format_aspace_date(dates)
        same == [ok |-> FALSE, err |-> NoErr, files |-> files, dirs |-> dirs,
                 info |-> bagInfo,
                 requests |-> <<find_by_refid_url(PathStr(bag_dir))>>]
        metadata == [ArchivesSpace_URI |-> obj_uri,
                     Start_Date |-> formatted[1],
                     End_Date |-> formatted[2],
                     Origin |-> <<"av_digitization_", format>>,
                     Rights_ID |-> rights]
    IN  IF fault = 1 THEN [same EXCEPT !.err = "catalog request failed"]
        ELSE IF fault = 2 THEN [same EXCEPT !.err = "date lookup failed"]
        ELSE IF formatted = Raised THEN [same EXCEPT !.err = "ValueError"]
        ELSE IF fault = 3
        THEN [same EXCEPT !.err = "BagError", !.info = metadata]
        ELSE [same EXCEPT !.ok = TRUE,
                          !.files = MakeBag(files, bag_dir, TagFiles),
                          !.dirs = MakeBag(dirs, bag_dir, {})
                                       \cup {bag_dir \o <<DataDir>>},
                          !.info = metadata]

(* fault: 0 none, 1 the find-by-id request fails, 2 the date lookup fails,  *)
(* 3 the bag tool fails. dates: the record find_closest_value returns.      *)
(* requests: the URLs asked of the catalog; info: the metadata handed to    *)
(* the bag tool, when it is invoked.                                        *)
create_bag(bag_dir, rights, dates, fault) ==
    LET obj_uri == uri_from_refid(PathStr(bag_dir))
        formatted == format_aspace_date(dates)
        same == [ok |-> FALSE, err |-> NoErr, files |-> files, dirs |-> dirs,
                 info |-> bagInfo,
                 requests |-> <<find_by_refid_url(PathStr(bag_dir))>>]
        metadata == [ArchivesSpace_URI |-> obj_uri,
                     Start_Date |-> formatted[1],
                     End_Date |-> formatted[2],
                     Origin |-> <<"av_digitization_", format>>,
                     Rights_ID |-> rights]
    IN  IF fault = 1 THEN [same EXCEPT !.err = "catalog request failed"]
        ELSE IF obj_uri = Raised
        THEN [same EXCEPT !.err = "results found for search. Expected one result."]
        ELSE IF fault = 2 THEN [same EXCEPT !.err = "date lookup failed"]
        ELSE IF formatted = Raised THEN [same EXCEPT !.err = "ValueError"]
        ELSE IF fault = 3
        THEN [same EXCEPT !.err = "BagError", !.info = metadata]
        ELSE [same EXCEPT !.ok = TRUE,
                          !.files = MakeBag(files, bag_dir, TagFiles),
                          !.dirs = MakeBag(dirs, bag_dir, {})
                                       \cup {bag_dir \o <<DataDir>>},
                          !.info = metadata]

-----------------------------------------------------------------------------
(* Packager.compress_bag                                                   *)

CompressedPath(bag_dir) == PurePath(PathStr(bag_dir) \o TarGz)

(* Faulty variant: no arcname, the entries carry the whole path given.      *)
TarAdd_full_path(bag_dir, fs) == {p \in fs : IsUnder(p, bag_dir)}

(* tar.add(bag_dir, arcname=name): the regular files, rooted at the name.   *)
TarAdd(bag_dir, fs) ==
    {<<PathName(bag_dir)>> \o RelativeTo(p, bag_dir) :
         p \in {q \in fs : IsUnder(q, bag_dir)}}

RmTree(paths, d) == {p \in paths : p # d /\ ~IsUnder(p, d)}

(* Faulty variant: the directory is removed even when writing fails.        *)
compress_bag_finally(bag_dir, fault) ==
    LET compressed_path == CompressedPath(bag_dir)
        opened == files \cup {compressed_path}
    IN  IF fault = 1
        THEN [ok |-> FALSE, err |-> "OSError: open", files |-> files,
              dirs |-> dirs, entries |-> tarEntries, ret |-> NoPath]
        ELSE IF fault = 2 \/ bag_dir \notin dirs
        THEN [ok |-> FALSE, err |-> "OSError: write",
              files |-> RmTree(opened, bag_dir),
              dirs |-> RmTree(dirs, bag_dir), entries |-> {}, ret |-> NoPath]
        ELSE IF fault = 3
        THEN [ok |-> FALSE, err |-> "OSError: rmtree", files |-> opened,
              dirs |-> dirs, entries |-> TarAdd(bag_dir, files),
              ret |-> NoPath]
        ELSE [ok |-> TRUE, err |-> NoErr, files |-> RmTree(opened, bag_dir),
              dirs |-> RmTree(dirs, bag_dir),
              entries |-> TarAdd(bag_dir, files), ret |-> compressed_path]

(* fault: 0 none, 1 the archive cannot be opened, 2 writing the archive     *)
(* fails, 3 removing the directory fails.                                   *)
compress_bag(bag_dir, fault) ==
    LET compressed_path == CompressedPath(bag_dir)
        opened == files \cup {compressed_path}
    IN  IF fault = 1
        THEN [ok |-> FALSE, err |-> "OSError: open", files |-> files,
              dirs |-> dirs, entries |-> tarEntries, ret |-> NoPath]
        ELSE IF fault = 2 \/ bag_dir \notin dirs
        THEN [ok |-> FALSE, err |-> "OSError: write", files |-> opened,
              dirs |-> dirs, entries |-> {}, ret |-> NoPath]
        ELSE IF fault = 3
        THEN [ok |-> FALSE, err |-> "OSError: rmtree", files |-> opened,
              dirs |-> dirs, entries |-> TarAdd(bag_dir, files),
              ret |-> NoPath]
        ELSE [ok |-> TRUE, err |-> NoErr, files |-> RmTree(opened, bag_dir),
              dirs |-> RmTree(dirs, bag_dir),
              entries |-> TarAdd(bag_dir, files), ret |-> compressed_path]

-----------------------------------------------------------------------------
(* Packager.deliver_package                                                *)

(* Faulty variant: the local archive is kept after the upload.                      *)
deliver_package_keep(package_path, fault) ==
    IF fault = 1
    THEN [ok |-> FALSE, err |-> "TransferError: upload", files |-> files,
          dest |-> dest]
    ELSE IF package_path \notin files
    THEN [ok |-> FALSE, err |-> "FileNotFoundError", files |-> files,
          dest |-> dest]
    ELSE [ok |-> TRUE, err |-> NoErr, files |-> files,
          dest |-> PutObject(dest,
                      [bucket |-> DestinationBucket,
                       key |-> PathName(package_path),
                       content_type |-> "application/gzip",
                       body |-> package_path, entries |-> tarEntries])]

(* Faulty variant: the local archive is unlinked before the upload.         *)
deliver_package_unlink_first(package_path, fault) ==
    IF fault = 1
    THEN [ok |-> FALSE, err |-> "TransferError: upload",
          files |-> files \ {package_path}, dest |-> dest]
    ELSE IF package_path \notin files
    THEN [ok |-> FALSE, err |-> "FileNotFoundError", files |-> files,
          dest |-> dest]
    ELSE [ok |-> TRUE, err |-> NoErr, files |-> files \ {package_path},
          dest |-> PutObject(dest,
                      [bucket |-> DestinationBucket,
                       key |-> PathName(package_path),
                       content_type |-> "application/gzip",
                       body |-> package_path, entries |-> tarEntries])]

(* fault: 0 none, 1 the upload fails.                                       *)
deliver_package(package_path, fault) ==
    IF fault = 1
    THEN [ok |-> FALSE, err |-> "TransferError: upload", files |-> files,
          dest |-> dest]
    ELSE IF package_path \notin files
    THEN [ok |-> FALSE, err |-> "FileNotFoundError", files |-> files,
          dest |-> dest]
    ELSE [ok |-> TRUE, err |-> NoErr, files |-> files \ {package_path},
          dest |-> PutObject(dest,
                      [bucket |-> DestinationBucket,
                       key |-> PathName(package_path),
                       content_type |-> "application/gzip",
                       body |-> package_path, entries |-> tarEntries])]

-----------------------------------------------------------------------------
(* Packager.cleanup_successful_job and Packager.cleanup_failed_job         *)

(* Faulty variant: every object of the bucket is deleted.                   *)
cleanup_successful_job_all(fault) ==
    LET to_delete == ListObjects(source, RefId)
    IN  IF fault = 1
        THEN [ok |-> FALSE, err |-> "TransferError: list", source |-> source]
        ELSE IF to_delete = <<>>
        THEN [ok |-> FALSE, err |-> "'Contents'", source |-> source]
        ELSE IF fault = 2
        THEN [ok |-> FALSE, err |-> "TransferError: delete", source |-> source]
        ELSE [ok |-> TRUE, err |-> NoErr, source |-> {}]

(* Faulty variant: the keys listed at staging are deleted.                  *)
cleanup_successful_job_staged(fault) ==
    LET to_delete == ListObjects(source \cap source0, RefId)
    IN  IF fault = 1
        THEN [ok |-> FALSE, err |-> "TransferError: list", source |-> source]
        ELSE IF to_delete = <<>>
        THEN [ok |-> FALSE, err |-> "'Contents'", source |-> source]
        ELSE IF fault = 2
        THEN [ok |-> FALSE, err |-> "TransferError: delete", source |-> source]
        ELSE [ok |-> TRUE, err |-> NoErr, source |-> source \ SeqToSet(to_delete)]

(* fault: 0 none, 1 the listing call fails, 2 the delete call fails.        *)
cleanup_successful_job(fault) ==
    LET to_delete == ListObjects(source, RefId)
    IN  IF fault = 1
        THEN [ok |-> FALSE, err |-> "TransferError: list", source |-> source]
        ELSE IF to_delete = <<>>
        THEN [ok |-> FALSE, err |-> "'Contents'", source |-> source]
        ELSE IF fault = 2
        THEN [ok |-> FALSE, err |-> "TransferError: delete", source |-> source]
        ELSE [ok |-> TRUE, err |-> NoErr, source |-> source \ SeqToSet(to_delete)]

(* Faulty variant: rmtree without the is_dir test.                          *)
cleanup_failed_job_strict(bag_dir, fault) ==
    IF bag_dir \notin dirs
    THEN [ok |-> FALSE, err |-> "FileNotFoundError", files |-> files,
          dirs |-> dirs]
    ELSE IF fault = 1
    THEN [ok |-> FALSE, err |-> "OSError: rmtree", files |-> files, dirs |-> dirs]
    ELSE [ok |-> TRUE, err |-> NoErr,
          files |-> RmTree(files, bag_dir) \ {CompressedPath(bag_dir)},
          dirs |-> RmTree(dirs, bag_dir)]

(* Faulty variant: the local archive is not removed.                        *)
cleanup_failed_job_keep_archive(bag_dir, fault) ==
    IF bag_dir \in dirs /\ fault = 1
    THEN [ok |-> FALSE, err |-> "OSError: rmtree", files |-> files, dirs |-> dirs]
    ELSE [ok |-> TRUE, err |-> NoErr,
          files |-> RmTree(files, bag_dir),
          dirs |-> RmTree(dirs, bag_dir)]

(* fault: 0 none, 1 removing the directory fails.                           *)
cleanup_failed_job(bag_dir, fault) ==
    IF bag_dir \in dirs /\ fault = 1
    THEN [ok |-> FALSE, err |-> "OSError: rmtree", files |-> files, dirs |-> dirs]
    ELSE [ok |-> TRUE, err |-> NoErr,
          files |-> RmTree(files, bag_dir) \ {CompressedPath(bag_dir)},
          dirs |-> RmTree(dirs, bag_dir)]

-----------------------------------------------------------------------------
(* Packager.deliver_success_notification / deliver_failure_notification    *)

(* fault: 0 none, 1 the publish call fails.                                 *)
deliver_success_notification(fault) ==
    IF format = Unset
    THEN [ok |-> FALSE, err |-> "AttributeError: format", notes |-> notes]
    ELSE IF fault = 1
    THEN [ok |-> FALSE, err |-> "PublishError", notes |-> notes]
    ELSE [ok |-> TRUE, err |-> NoErr,
          notes |-> Append(notes,
              [Message |-> <<format, "successfully packaged">>,
               attributes |-> {"format", "refid", "service", "outcome"},
               format |-> format, refid |-> RefId,
               service |-> "digitized_av_packaging",
               outcome |-> "SUCCESS", message |-> NoErr])]

(* Faulty variant: the failure notification carries no message.             *)
deliver_failure_notification_no_message(exception, fault) ==
    IF format = Unset
    THEN [ok |-> FALSE, err |-> "AttributeError: format", notes |-> notes]
    ELSE IF fault = 1
    THEN [ok |-> FALSE, err |-> "PublishError", notes |-> notes]
    ELSE [ok |-> TRUE, err |-> NoErr,
          notes |-> Append(notes,
              [Message |-> <<format, "failed packaging">>,
               attributes |-> {"format", "refid", "service", "outcome"},
               format |-> format, refid |-> RefId,
               service |-> "digitized_av_packaging",
               outcome |-> "FAILURE", message |-> NoErr])]

deliver_failure_notification(exception, fault) ==
    IF format = Unset
    THEN [ok |-> FALSE, err |-> "AttributeError: format", notes |-> notes]
    ELSE IF fault = 1
    THEN [ok |-> FALSE, err |-> "PublishError", notes |-> notes]
    ELSE [ok |-> TRUE, err |-> NoErr,
          notes |-> Append(notes,
              [Message |-> <<format, "failed packaging">>,
               attributes |-> {"format", "refid", "service", "outcome",
                               "message"},
               format |-> format, refid |-> RefId,
               service |-> "digitized_av_packaging",
               outcome |-> "FAILURE", message |-> exception])]

-----------------------------------------------------------------------------
(* Packager.run: the try block, line by line, and the except clause.       *)

(* Faulty variant: the source is purged before the archive is delivered.            *)
ForwardStages_purge_first ==
    << "download_files", "parse_format", "create_poster",
       "deliver_derivatives", "create_bag", "compress_bag",
       "cleanup_successful_job", "deliver_package",
       "deliver_success_notification" >>

(* Faulty variant: the success notification is published before the purge.  *)
ForwardStages_notify_first ==
    << "download_files", "parse_format", "create_poster",
       "deliver_derivatives", "create_bag", "compress_bag", "deliver_package",
       "deliver_success_notification", "cleanup_successful_job" >>

(* Faulty variant: the derivatives are delivered after compression.                 *)
ForwardStages_deliver_last ==
    << "download_files", "parse_format", "create_poster", "create_bag",
       "compress_bag", "deliver_derivatives", "deliver_package",
       "cleanup_successful_job", "deliver_success_notification" >>

ForwardStages ==
    << "download_files", "parse_format", "create_poster",
       "deliver_derivatives", "create_bag", "compress_bag", "deliver_package",
       "cleanup_successful_job", "deliver_success_notification" >>

StageIndex(stage) == CHOOSE i \in 1..Len(ForwardStages) : ForwardStages[i] = stage

IsForward(stage) == \E i \in 1..Len(ForwardStages) : ForwardStages[i] = stage

(* The statement that follows `stage` when it returns normally.             *)
NextStage(stage) ==
    IF stage = "cleanup_failed_job" THEN "deliver_failure_notification"
    ELSE IF stage = "deliver_failure_notification" THEN "returned"
    ELSE IF StageIndex(stage) = Len(ForwardStages) THEN "returned"
    ELSE ForwardStages[StageIndex(stage) + 1]

(* Faulty variant: an exception in the try block is swallowed.                      *)
Goto_swallow(stage, ok) ==
    IF ok \/ IsForward(stage) THEN NextStage(stage) ELSE "raised"

(* Where control goes after `stage`: an exception in the try block enters   *)
(* the except clause, an exception in the except clause leaves run().       *)
Goto(stage, ok) ==
    IF ok THEN NextStage(stage)
    ELSE IF IsForward(stage) THEN "cleanup_failed_job"
    ELSE "raised"

(* The failures that may be injected into an operation: any of `choices`   *)
(* in the first invocation, none in a later one.                            *)
Faults(choices) == IF invocation = 1 THEN choices ELSE {0}

(* err is the exception `e` bound by the except clause of run().            *)
Step(stage, ok, e) ==
    /\ pc' = Goto(stage, ok)
    /\ err' = IF ~ok /\ IsForward(stage) THEN e ELSE err
    /\ log' = Append(log, [run |-> invocation, stage |-> stage, ok |-> ok,
                           err |-> IF ok THEN NoErr ELSE e])

(* The date records the catalog may answer with during run().               *)
RunDates ==
    { [date_type |-> "single", begin |-> <<"1", "9", "5", "0">>,
       end |-> <<>>],
      [date_type |-> "inclusive",
       begin |-> <<"1", "9", "5", "0", "-", "0", "3">>,
       end |-> <<"1", "9", "6", "9", "-", "0", "4">>],
      [date_type |-> "inclusive",
       begin |-> <<"1", "9", "5", "0">>,
       end |-> <<"1", "9", "6", "9", "-", "1", "3">>] }

DownloadFiles ==
    /\ pc = "download_files"
    /\ \E fault \in Faults(-1..Len(ListObjects(source, RefId))) :
         LET r == download_files(BagDir, fault)
         IN  /\ files' = r.files
             /\ dirs' = r.dirs
             /\ downloaded' = IF r.ok THEN r.ret ELSE downloaded
             /\ Step("download_files", r.ok, r.err)
    /\ UNCHANGED <<invocation, written, tmp_dir, format, source, source0, catalog, tarEntries,
                   bagInfo, dest, notes, compressed, callVars,
                   requests>>

ParseFormat ==
    /\ pc = "parse_format"
    /\ LET r == parse_format(downloaded)
       IN  /\ format' = IF r = Raised THEN format ELSE r
           /\ Step("parse_format", r # Raised, "Unrecognized package format")
    /\ UNCHANGED <<invocation, written, tmp_dir, source, source0, catalog, files, dirs, tarEntries,
                   bagInfo, dest, notes, downloaded, compressed, callVars,
                   requests>>

CreatePoster ==
    /\ pc = "create_poster"
    /\ \E fault \in Faults((IF format = "video" THEN 0..1 ELSE {0})) :
         LET r == create_poster(BagDir, fault)
         IN  /\ files' = r.files
             /\ Step("create_poster", r.ok, r.err)
    /\ UNCHANGED <<invocation, written, tmp_dir, format, source, source0, catalog, dirs, tarEntries,
                   bagInfo, dest, notes, downloaded, compressed, callVars,
                   requests>>

DeliverDerivatives ==
    /\ pc = "deliver_derivatives"
    /\ \E fault \in Faults(0..Len(derivative_map)) :
         LET r == deliver_derivatives(fault)
         IN  /\ files' = r.files
             /\ dest' = r.dest
             /\ Step("deliver_derivatives", r.ok, r.err)
    /\ UNCHANGED <<invocation, written, tmp_dir, format, source, source0, catalog, dirs, tarEntries,
                   bagInfo, notes, downloaded, compressed, callVars,
                   requests>>

CreateBag ==
    /\ pc = "create_bag"
    /\ \E fault \in Faults(0..3), dates \in RunDates :
         LET r == create_bag(BagDir, rights_ids, dates, fault)
         IN  /\ files' = r.files
             /\ dirs' = r.dirs
             /\ bagInfo' = r.info
             /\ requests' = requests \o r.requests
             /\ Step("create_bag", r.ok, r.err)
    /\ UNCHANGED <<invocation, written, tmp_dir, format, source, source0, catalog, tarEntries,
                   dest, notes, downloaded, compressed, callVars>>

CompressBag ==
    /\ pc = "compress_bag"
    /\ \E fault \in Faults(0..3) :
         LET r == compress_bag(BagDir, fault)
         IN  /\ files' = r.files
             /\ dirs' = r.dirs
             /\ tarEntries' = r.entries
             /\ compressed' = IF r.ok THEN r.ret ELSE compressed
             /\ Step("compress_bag", r.ok, r.err)
    /\ UNCHANGED <<invocation, written, tmp_dir, format, source, source0, catalog, bagInfo, dest,
                   notes, downloaded, callVars,
                   requests>>

DeliverPackage ==
    /\ pc = "deliver_package"
    /\ \E fault \in Faults(0..1) :
         LET r == deliver_package(compressed, fault)
         IN  /\ files' = r.files
             /\ dest' = r.dest
             /\ Step("deliver_package", r.ok, r.err)
    /\ UNCHANGED <<invocation, written, tmp_dir, format, source, source0, catalog, dirs, tarEntries,
                   bagInfo, notes, downloaded, compressed, callVars,
                   requests>>

CleanupSuccessfulJob ==
    /\ pc = "cleanup_successful_job"
    /\ \E fault \in Faults(0..2) :
         LET r == cleanup_successful_job(fault)
         IN  /\ source' = r.source
             /\ Step("cleanup_successful_job", r.ok, r.err)
    /\ UNCHANGED <<invocation, written, tmp_dir, format, source0, catalog, files, dirs, tarEntries,
                   bagInfo, dest, notes, downloaded, compressed, callVars,
                   requests>>

DeliverSuccessNotification ==
    /\ pc = "deliver_success_notification"
    /\ \E fault \in Faults(0..1) :
         LET r == deliver_success_notification(fault)
         IN  /\ notes' = r.notes
             /\ Step("deliver_success_notification", r.ok, r.err)
    /\ UNCHANGED <<invocation, written, tmp_dir, format, source, source0, catalog, files, dirs,
                   tarEntries, bagInfo, dest, downloaded, compressed, callVars,
                   requests>>

(* Faulty variant: the failure handler also removes what was delivered.     *)
CleanupFailedJob_rollback ==
    /\ pc = "cleanup_failed_job"
    /\ \E fault \in Faults((IF BagDir \in dirs THEN 0..1 ELSE {0})) :
         LET r == cleanup_failed_job(BagDir, fault)
         IN  /\ files' = r.files
             /\ dirs' = r.dirs
             /\ dest' = {}
             /\ Step("cleanup_failed_job", r.ok, r.err)
    /\ UNCHANGED <<invocation, written, tmp_dir, format, source, source0, catalog, tarEntries,
                   bagInfo, notes, downloaded, compressed, callVars,
                   requests>>

CleanupFailedJob ==
    /\ pc = "cleanup_failed_job"
    /\ \E fault \in Faults((IF BagDir \in dirs THEN 0..1 ELSE {0})) :
         LET r == cleanup_failed_job(BagDir, fault)
         IN  /\ files' = r.files
             /\ dirs' = r.dirs
             /\ Step("cleanup_failed_job", r.ok, r.err)
    /\ UNCHANGED <<invocation, written, tmp_dir, format, source, source0, catalog, tarEntries,
                   bagInfo, dest, notes, downloaded, compressed, callVars,
                   requests>>

DeliverFailureNotification ==
    /\ pc = "deliver_failure_notification"
    /\ \E fault \in Faults(0..1) :
         LET r == deliver_failure_notification(err, fault)
         IN  /\ notes' = r.notes
             /\ Step("deliver_failure_notification", r.ok, r.err)
    /\ UNCHANGED <<invocation, written, tmp_dir, format, source, source0, catalog, files, dirs,
                   tarEntries, bagInfo, dest, downloaded, compressed, callVars,
                   requests>>

Init ==
    /\ tmp_dir \in TmpDirs
    /\ format = Unset
    /\ source \in SUBSET KeyUniverse
    /\ source0 = source
    /\ catalog \in SeqsUpTo(Uris, MaxMatches)
    /\ files = {}
    /\ dirs = {PurePath(tmp_dir)}
    /\ tarEntries = {}
    /\ bagInfo = NoInfo
    /\ dest = {}
    /\ notes = <<>>
    /\ downloaded = <<>>
    /\ compressed = NoPath
    /\ err = NoErr
    /\ pc = "download_files"
    /\ log = <<>>
    /\ requests = <<>>
    /\ invocation = 1
    /\ written = {}
    /\ fn = "none"
    /\ arg = <<>>
    /\ ret = NoRet

Next ==
    \/ DownloadFiles
    \/ ParseFormat
    \/ CreatePoster
    \/ DeliverDerivatives
    \/ CreateBag
    \/ CompressBag
    \/ DeliverPackage
    \/ CleanupSuccessfulJob
    \/ DeliverSuccessNotification
    \/ CleanupFailedJob
    \/ DeliverFailureNotification

Spec == Init /\ [][Next]_vars

-----------------------------------------------------------------------------
(* A second invocation after one that ended in failure: a new Packager with *)
(* the same arguments calls run() on the buckets, the topic and the local   *)
(* file system as the first invocation left them; no failure is injected.   *)

Reinvoke ==
    /\ invocation = 1
    /\ pc \in {"returned", "raised"}
    /\ \E i \in 1..Len(log) : ~log[i].ok
    /\ invocation' = 2
    /\ pc' = "download_files"
    /\ format' = Unset
    /\ err' = NoErr
    /\ downloaded' = <<>>
    /\ compressed' = NoPath
    /\ UNCHANGED <<tmp_dir, source, source0, catalog, files, dirs, tarEntries,
                   bagInfo, dest, notes, log, requests, written, callVars>>

NextRerun ==
    \/ Next
    \/ Reinvoke

SpecRerun == Init /\ [][NextRerun]_vars

-----------------------------------------------------------------------------
(* Another party writes one object to the source bucket while run() is      *)
(* between staging and the purge.                                           *)

PutByOther ==
    /\ written = {}
    /\ pc \in {"parse_format", "create_poster", "deliver_derivatives",
               "create_bag", "compress_bag", "deliver_package",
               "cleanup_successful_job"}
    /\ \E k \in KeyUniverse \ source :
         /\ source' = source \cup {k}
         /\ written' = {k}
    /\ UNCHANGED <<tmp_dir, format, source0, catalog, files, dirs, tarEntries,
                   bagInfo, dest, notes, downloaded, compressed, err, pc, log,
                   requests, invocation, callVars>>

NextWriter ==
    \/ Next
    \/ PutByOther

SpecWriter == Init /\ [][NextWriter]_vars

-----------------------------------------------------------------------------
(* Packager.__init__ of the earlier iteration (src/package.py), which takes *)
(* the media format as its first argument. clients: the clients created, in *)
(* order.                                                                   *)

(* Faulty variant: the format is tested once the clients exist.             *)
Packager_init_late_check(format_arg) ==
    IF format_arg \notin {"audio", "video"}
    THEN [ok |-> FALSE, err |-> <<"Unable to process format ", format_arg>>,
          format |-> format_arg, clients |-> <<"sns", "s3">>]
    ELSE [ok |-> TRUE, err |-> <<>>, format |-> format_arg,
          clients |-> <<"sns", "s3">>]

Packager_init(format_arg) ==
    IF format_arg \notin {"audio", "video"}
    THEN [ok |-> FALSE, err |-> <<"Unable to process format ", format_arg>>,
          format |-> format_arg, clients |-> <<>>]
    ELSE [ok |-> TRUE, err |-> <<>>, format |-> format_arg,
          clients |-> <<"sns", "s3">>]

-----------------------------------------------------------------------------
(* Single calls of the methods that compute a value from their input.      *)

Called(v) == [done |-> TRUE, val |-> v]

FileName(name) == <<RefId, name>>

(* Paths a file list may hold: audio and video names, a hidden file named   *)
(* ".mp3", a name ending in a dot, a file in a directory named like a video. *)
ListPaths ==
    { FileName(ANameMp3), FileName(ANameMp4), FileName(MaNameWav),
      FileName(<<".", "m", "p", "3">>),
      FileName(<<"a", ".", "m", "p", "4", ".">>),
      << <<"d", ".", "m", "p", "4">>, <<"f">> >> }

LookupTexts == {RefId, TmpRel \o <<"/">> \o RefId}

IdleRun ==
    /\ source = {}
    /\ source0 = {}
    /\ tarEntries = {}
    /\ bagInfo = NoInfo
    /\ dest = {}
    /\ notes = <<>>
    /\ downloaded = <<>>
    /\ compressed = NoPath
    /\ err = NoErr
    /\ pc = "idle"
    /\ log = <<>>
    /\ requests = <<>>
    /\ invocation = 1
    /\ written = {}

(* Date texts a catalog record may hold: a bare year, a year and month, a   *)
(* full date, and the compact full date; century, leap and common years,    *)
(* days that some months lack.                                              *)
CallYears == {1900, 1952, 1969, 2000}
CallMonths == {2, 4, 12}
CallDays == {1, 29, 31}

DateCases ==
    {[form |-> "year", y |-> y, m |-> 1, d |-> 1, text |-> ToText(y, 4)] :
         y \in CallYears}
    \cup {[form |-> "month", y |-> y, m |-> m, d |-> 1,
           text |-> ToText(y, 4) \o <<"-">> \o ToText(m, 2)] :
              y \in CallYears, m \in CallMonths}
    \cup {[form |-> "day", y |-> y, m |-> m, d |-> d,
           text |-> ToText(y, 4) \o <<"-">> \o ToText(m, 2) \o <<"-">>
                        \o ToText(d, 2)] :
              y \in CallYears, m \in CallMonths, d \in CallDays}
    \cup {[form |-> "compact", y |-> y, m |-> m, d |-> d,
           text |-> ToText(y, 4) \o ToText(m, 2) \o ToText(d, 2)] :
              y \in {1969}, m \in CallMonths, d \in CallDays}

CallDates ==
    {[date_type |-> "single", begin |-> b.text, end |-> <<>>] :
         b \in DateCases}
    \cup {[date_type |-> "inclusive", begin |-> b.text, end |-> e.text] :
              b \in DateCases, e \in DateCases}

(* Formats a caller may pass to the earlier iteration's constructor.        *)
InitFormats == {"audio", "video", "text", "Audio", "audio ", ""}

NoLocal ==
    /\ files = {}
    /\ dirs = {}

(* The master file left in the working directory once the derivatives are   *)
(* delivered.                                                               *)
Master(kind) == IF kind = "audio" THEN MaNameWav ELSE MaNameMkv

(* Local states a method may be called on: a bag with some payload in the   *)
(* working directory, possibly a file of another job beside it.             *)
OtherFile == PurePath(tmp_dir) \o << <<"o", "t", "h", "e", "r">> >>

BagStates ==
    {{BagDir \o <<DataDir, n>> : n \in payload}
         \cup {BagDir \o <<t>> : t \in TagFiles} \cup beside :
             payload \in SUBSET {MaNameWav, MaNameMkv},
             beside \in {{}, {OtherFile}}}

(* Local states a failed job may leave: the working directory absent, or   *)
(* present and empty, holding staged files or a bag; the archive absent or  *)
(* present; possibly a file of another job beside them.                     *)
LocalStates ==
    {[files |-> content \cup archive \cup beside,
      dirs |-> {PurePath(tmp_dir), BagDir}
                   \cup (IF \E p \in content : Len(p) > Len(BagDir) + 1
                         THEN {BagDir \o <<DataDir>>} ELSE {})] :
         content \in {{}, {BagDir \o <<MaNameWav>>, BagDir \o <<ANameMp3>>}}
                        \cup {b \in BagStates : OtherFile \notin b},
         archive \in {{}, {CompressedPath(BagDir)}},
         beside \in {{}, {OtherFile}}}
    \cup {[files |-> archive \cup beside, dirs |-> {PurePath(tmp_dir)}] :
              archive \in {{}, {CompressedPath(BagDir)}},
              beside \in {{}, {OtherFile}}}

(* Rights inputs a job may be configured with: digits, commas and blanks.   *)
RightsChars == {"1", "2", ",", " "}

RightsTexts == SeqsUpTo(RightsChars, MaxRights)

RightsCallDates ==
    [date_type |-> "single", begin |-> <<"1", "9", "5", "0">>, end |-> <<>>]

InitCalls ==
    /\ IdleRun
    /\ ret = NoRet
    /\ \/ /\ fn = "parse_format"
          /\ arg \in SeqsUpTo(ListPaths, MaxFiles)
          /\ tmp_dir = TmpDot
          /\ format = Unset
          /\ catalog = <<>>
          /\ NoLocal
       \/ /\ fn = "derivative_map"
          /\ arg = <<>>
          /\ tmp_dir \in TmpDirs
          /\ format \in {"audio", "video"}
          /\ catalog = <<>>
          /\ NoLocal
       \/ /\ fn = "uri_from_refid"
          /\ arg \in LookupTexts
          /\ tmp_dir = TmpDot
          /\ format = Unset
          /\ catalog \in SeqsUpTo(Uris, MaxMatches)
          /\ NoLocal
       \/ /\ fn = "format_aspace_date"
          /\ arg \in CallDates
          /\ tmp_dir = TmpDot
          /\ format = Unset
          /\ catalog = <<>>
          /\ NoLocal
       \/ /\ fn = "compress_bag"
          /\ tmp_dir \in TmpDirs
          /\ format = "audio"
          /\ catalog = <<>>
          /\ files \in BagStates
          /\ dirs = {PurePath(tmp_dir), BagDir, BagDir \o <<DataDir>>}
          /\ arg = files
       \/ /\ fn = "cleanup_failed_job"
          /\ tmp_dir \in TmpDirs
          /\ format \in {Unset, "audio"}
          /\ catalog = <<>>
          /\ \E local \in LocalStates :
                /\ files = local.files
                /\ dirs = local.dirs
                /\ arg = local
       \/ /\ fn = "init"
          /\ arg \in InitFormats
          /\ tmp_dir \in TmpDirs
          /\ format = Unset
          /\ catalog = <<>>
          /\ NoLocal
       \/ /\ fn = "create_bag"
          /\ arg \in RunDates
          /\ tmp_dir \in TmpDirs
          /\ format \in {"audio", "video"}
          /\ catalog \in SeqsUpTo(Uris, MaxMatches)
          /\ files = {BagDir \o <<Master(format)>>}
          /\ dirs = {PurePath(tmp_dir), BagDir}
       \/ /\ fn = "rights_ids"
          /\ arg \in RightsTexts
          /\ tmp_dir = TmpDot
          /\ format = "audio"
          /\ catalog \in {<<u>> : u \in Uris}
          /\ files = {BagDir \o <<Master(format)>>}
          /\ dirs = {PurePath(tmp_dir), BagDir}

CallParseFormat ==
    /\ fn = "parse_format"
    /\ ~ret.done
    /\ ret' = Called(parse_format(arg))
    /\ UNCHANGED <<runVars, fn, arg>>

CallDerivativeMap ==
    /\ fn = "derivative_map"
    /\ ~ret.done
    /\ ret' = Called(derivative_map)
    /\ UNCHANGED <<runVars, fn, arg>>

CallUriFromRefid ==
    /\ fn = "uri_from_refid"
    /\ ~ret.done
    /\ ret' = Called(uri_from_refid(arg))
    /\ UNCHANGED <<runVars, fn, arg>>

(* Packager(format, ...) of the earlier iteration.                          *)
CallInit ==
    /\ fn = "init"
    /\ ~ret.done
    /\ LET r == Packager_init(arg)
       IN  /\ ret' = Called(r)
           /\ format' = IF r.ok THEN r.format ELSE format
    /\ UNCHANGED <<invocation, written, tmp_dir, source, source0, catalog, files, dirs,
                   tarEntries, bagInfo, dest, notes, downloaded, compressed,
                   err, pc, log, requests, fn, arg>>

CallFormatAspaceDate ==
    /\ fn = "format_aspace_date"
    /\ ~ret.done
    /\ ret' = Called(format_aspace_date(arg))
    /\ UNCHANGED <<runVars, fn, arg>>

(* create_bag(bag_dir, rights_ids) as run() calls it, on a working          *)
(* directory that holds the master file.                                    *)
CallCreateBag ==
    /\ fn = "create_bag"
    /\ ~ret.done
    /\ \E fault \in 0..3 :
         LET r == create_bag(BagDir, rights_ids, arg, fault)
         IN  /\ files' = r.files
             /\ dirs' = r.dirs
             /\ bagInfo' = r.info
             /\ requests' = requests \o r.requests
             /\ ret' = Called([ok |-> r.ok, err |-> r.err])
    /\ UNCHANGED <<invocation, written, tmp_dir, format, source, source0, catalog, tarEntries,
                   dest, notes, downloaded, compressed, err, pc, log, fn,
                   arg>>

(* Packager(..., rights_ids, ...) followed by create_bag(bag_dir,            *)
(* self.rights_ids) as run() calls it; the bag tool may fail.               *)
CallRightsIds ==
    /\ fn = "rights_ids"
    /\ ~ret.done
    /\ \E fault \in {0, 3} :
         LET r == create_bag(BagDir, split_rights_ids(arg), RightsCallDates,
                             fault)
         IN  /\ files' = r.files
             /\ dirs' = r.dirs
             /\ bagInfo' = r.info
             /\ requests' = requests \o r.requests
             /\ ret' = Called([ok |-> r.ok, err |-> r.err])
    /\ UNCHANGED <<invocation, written, tmp_dir, format, source, source0, catalog, tarEntries,
                   dest, notes, downloaded, compressed, err, pc, log, fn,
                   arg>>

(* compress_bag(bag_dir) as run() calls it; arg keeps the files before.     *)
CallCompressBag ==
    /\ fn = "compress_bag"
    /\ ~ret.done
    /\ \E fault \in 0..3 :
         LET r == compress_bag(BagDir, fault)
         IN  /\ files' = r.files
             /\ dirs' = r.dirs
             /\ tarEntries' = r.entries
             /\ ret' = Called([ok |-> r.ok, err |-> r.err, ret |-> r.ret])
    /\ UNCHANGED <<invocation, written, tmp_dir, format, source, source0, catalog, bagInfo, dest,
                   notes, downloaded, compressed, err, pc, log, requests, fn,
                   arg>>

(* cleanup_failed_job(bag_dir) as run() calls it, and once more on the      *)
(* state the first call left; arg keeps the state before the first call,    *)
(* ret.val.before the state before the latest one.                          *)
CleanupCall(n) ==
    LET r == cleanup_failed_job(BagDir, 0)
    IN  /\ files' = r.files
        /\ dirs' = r.dirs
        /\ ret' = Called([ok |-> r.ok, err |-> r.err, calls |-> n,
                          before |-> [files |-> files, dirs |-> dirs]])
        /\ UNCHANGED <<invocation, written, tmp_dir, format, source, source0, catalog, tarEntries,
                       bagInfo, dest, notes, downloaded, compressed, err, pc,
                       log, requests, fn, arg>>

CallCleanupFailedJob ==
    /\ fn = "cleanup_failed_job"
    /\ ~ret.done
    /\ CleanupCall(1)

CallCleanupFailedJobAgain ==
    /\ fn = "cleanup_failed_job"
    /\ ret.done
    /\ ret.val.calls = 1
    /\ CleanupCall(2)

NextCalls ==
    \/ CallParseFormat
    \/ CallDerivativeMap
    \/ CallUriFromRefid
    \/ CallInit
    \/ CallFormatAspaceDate
    \/ CallCreateBag
    \/ CallRightsIds
    \/ CallCompressBag
    \/ CallCleanupFailedJob
    \/ CallCleanupFailedJobAgain

SpecCalls == InitCalls /\ [][NextCalls]_vars

-----------------------------------------------------------------------------
(* Vocabulary of the properties.                                           *)

Ended == pc \in {"returned", "raised"}

Attempted(stage) == \E i \in 1..Len(log) : log[i].stage = stage

StageOk(stage) == \E i \in 1..Len(log) : log[i].stage = stage /\ log[i].ok

StageRaised(stage) == \E i \in 1..Len(log) : log[i].stage = stage /\ ~log[i].ok

AllOk == \A i \in 1..Len(log) : log[i].ok

(* Failures that are an operation's own: everything except the attribute     *)
(* error that follows from an earlier failure having left the format unset.  *)
OwnFailures == {i \in 1..Len(log) : ~log[i].ok /\ log[i].err # "AttributeError: format"}

PrefixKeys(keys) == {k \in keys : StartsWith(k, RefId)}

WorkingDir == PurePath(tmp_dir \o <<"/">> \o RefId)

ArchiveFile == PurePath(tmp_dir \o <<"/">> \o RefId \o TarGz)

LocalClean ==
    /\ WorkingDir \notin dirs
    /\ ArchiveFile \notin files
    /\ \A p \in files \cup dirs : ~IsUnder(p, WorkingDir)

HasObject(bucket, ext, content_type) ==
    \E o \in dest : /\ o.bucket = bucket
                    /\ o.key = RefId \o ext
                    /\ o.content_type = content_type

ArchiveDelivered == HasObject("destination", TarGz, "application/gzip")

DerivativesDelivered ==
    IF format = "video"
    THEN /\ HasObject("destination_video_mezz", <<".", "m", "o", "v">>,
                      "video/quicktime")
         /\ HasObject("destination_video_access", <<".", "m", "p", "4">>,
                      "video/mp4")
         /\ HasObject("destination_poster", <<".", "p", "n", "g">>,
                      "image/x-png")
    ELSE /\ format = "audio"
         /\ HasObject("destination_audio_access", <<".", "m", "p", "3">>,
                      "audio/mpeg")

-----------------------------------------------------------------------------
(* C1: if staging (download_files) raises and nothing else is made to fail, *)
(* then when run() ends the working directory and any partial archive are   *)
(* absent, no source object has been deleted, and exactly one notification  *)
(* has been published, with outcome FAILURE and the staging error's text.    *)
C1_StagingFailureNotified ==
    (Ended /\ StageRaised("download_files") /\ Cardinality(OwnFailures) = 1)
        => /\ LocalClean
           /\ source = source0
           /\ Len(notes) = 1
           /\ notes[1].outcome = "FAILURE"
           /\ notes[1].message = log[1].err

(* C2: if every stage of run() succeeds, then at the end no source object   *)
(* with the reference id as key prefix remains, every derivative and the    *)
(* archive are at their destination with their content type, the working    *)
(* directory and the local archive do not exist, and exactly one            *)
(* notification has been published, with outcome SUCCESS.                   *)
C2_SuccessEndState ==
    (Ended /\ AllOk)
        => /\ pc = "returned"
           /\ PrefixKeys(source) = {}
           /\ DerivativesDelivered
           /\ ArchiveDelivered
           /\ LocalClean
           /\ Len(notes) = 1
           /\ notes[1].outcome = "SUCCESS"

C2_Witness ==
    /\ pc = "returned"
    /\ AllOk
    /\ format = "video"
    /\ PrefixKeys(source0) # {}

(* C3: whichever single operation fails, run() ends without propagating an  *)
(* exception and has published exactly one notification: SUCCESS when       *)
(* nothing failed, FAILURE otherwise.                                       *)
C3_RunNeverPropagates ==
    (Ended /\ Cardinality(OwnFailures) <= 1)
        => /\ pc = "returned"
           /\ Len(notes) = 1
           /\ notes[1].outcome = (IF AllOk THEN "SUCCESS" ELSE "FAILURE")

(* C4: in one invocation each stage is attempted at most once, and once a   *)
(* stage has raised no later forward stage is executed.                     *)
C4_AttemptedOnceAndSkipped ==
    /\ \A i, j \in 1..Len(log) : i # j => log[i].stage # log[j].stage
    /\ \A i, j \in 1..Len(log) :
           (i < j /\ ~log[i].ok) => ~IsForward(log[j].stage)

C4_Witness ==
    /\ pc = "returned"
    /\ StageRaised("create_bag")
    /\ Len(log) = 7

(* C5: whenever an invocation ends on the failure branch, the objects in    *)
(* the source bucket under the reference-id prefix are those of the start.  *)
C5_FailureLeavesSource ==
    (Ended /\ Attempted("cleanup_failed_job"))
        => PrefixKeys(source) = PrefixKeys(source0)

(* C6: no source object is deleted by staging, and none is deleted before   *)
(* every derivative upload and the archive upload have succeeded.           *)
C6_PurgeOnlyAfterDelivery ==
    /\ source \subseteq source0
    /\ source # source0
           => /\ StageOk("deliver_derivatives")
              /\ StageOk("deliver_package")
              /\ DerivativesDelivered
              /\ ArchiveDelivered

C6_Witness == source # source0 /\ pc = "deliver_success_notification"

(* C7 as stated: no derivative or archive is uploaded to a destination      *)
(* before metadata resolution, bag assembly and compression have completed. *)
C7_NoUploadBeforeCompression ==
    dest # {} => StageOk("create_bag") /\ StageOk("compress_bag")

(* C7 as amended: on a successful run the stages execute in the order       *)
(* stage, classify, derive poster, deliver derivatives, resolve metadata    *)
(* and build bag, compress, deliver package; the archive is not uploaded    *)
(* before bag assembly and compression have completed, and the derivatives  *)
(* are uploaded before metadata resolution starts.                          *)
SuccessOrder ==
    << "download_files", "parse_format", "create_poster",
       "deliver_derivatives", "create_bag", "compress_bag", "deliver_package" >>

C7_DerivativesBeforeBag ==
    /\ \A i \in 1..Len(log) :
           (i <= Len(SuccessOrder) /\ \A j \in 1..i : log[j].ok)
               => log[i].stage = SuccessOrder[i]
    /\ ArchiveDelivered => StageOk("create_bag") /\ StageOk("compress_bag")
    /\ Attempted("create_bag") => StageOk("deliver_derivatives") /\ DerivativesDelivered

C7_Witness ==
    /\ ArchiveDelivered
    /\ pc = "cleanup_successful_job"

-----------------------------------------------------------------------------
(* C8: parse_format returns 'audio' for every list of exactly two files of  *)
(* which at least one has the extension .mp3, 'video' for every list of     *)
(* exactly three files of which at least one has the extension .mp4, and    *)
(* raises for every other list.                                             *)
HasExtension(path, ext) ==
    LET name == path[Len(path)]
    IN  /\ Len(name) > Len(ext)
        /\ SubSeq(name, Len(name) - Len(ext) + 1, Len(name)) = ext

C8_ParseFormat ==
    (fn = "parse_format" /\ ret.done)
        => LET audio == /\ Len(arg) = 2
                        /\ \E i \in 1..Len(arg) :
                               HasExtension(arg[i], <<".", "m", "p", "3">>)
               video == /\ Len(arg) = 3
                        /\ \E i \in 1..Len(arg) :
                               HasExtension(arg[i], <<".", "m", "p", "4">>)
           IN  /\ audio => ret.val = "audio"
               /\ video => ret.val = "video"
               /\ (~audio /\ ~video) => ret.val = Raised

C8_Witness ==
    /\ fn = "parse_format"
    /\ ret.done
    /\ ret.val = "video"
    /\ \E i \in 1..Len(arg) : arg[i] = FileName(<<".", "m", "p", "3">>)

(* C9: derivative_map returns exactly one descriptor for audio              *)
(* (<refid>_a.mp3, audio-access bucket, audio/mpeg) and exactly three for   *)
(* video in the order mezzanine (<refid>_me.mov, video/quicktime), access   *)
(* (<refid>_a.mp4, video/mp4), poster (poster.png, image/x-png), each local *)
(* path inside the working directory.                                       *)
Descriptor(name, bucket, content_type) ==
    [path |-> WorkingDir \o <<name>>, bucket |-> bucket,
     content_type |-> content_type]

C9_DerivativeMap ==
    (fn = "derivative_map" /\ ret.done)
        => /\ format = "audio" =>
                  ret.val = << Descriptor(<<"r", "1", "_", "a", ".", "m", "p", "3">>,
                                          "destination_audio_access", "audio/mpeg") >>
           /\ format = "video" =>
                  ret.val = << Descriptor(<<"r", "1", "_", "m", "e", ".", "m", "o", "v">>,
                                          "destination_video_mezz", "video/quicktime"),
                               Descriptor(<<"r", "1", "_", "a", ".", "m", "p", "4">>,
                                          "destination_video_access", "video/mp4"),
                               Descriptor(<<"p", "o", "s", "t", "e", "r", ".", "p", "n", "g">>,
                                          "destination_poster", "image/x-png") >>
           /\ \A i \in 1..Len(ret.val) : IsChild(ret.val[i].path, WorkingDir)

C9_Witness ==
    /\ fn = "derivative_map"
    /\ ret.done
    /\ format = "video"
    /\ tmp_dir = TmpAbs

(* C10: uri_from_refid returns the URI of the matching record when the      *)
(* find-by-id response holds exactly one match, and raises when it holds    *)
(* zero matches or more than one.                                           *)
Response == IF arg = RefId THEN catalog ELSE <<>>

C10_UriFromRefid ==
    (fn = "uri_from_refid" /\ ret.done)
        => /\ Len(Response) = 1 => ret.val = Response[1]
           /\ Len(Response) # 1 => ret.val = Raised

C10_Witness ==
    /\ fn = "uri_from_refid"
    /\ ret.done
    /\ Len(catalog) = 1
    /\ ret.val = catalog[1]

C10_WitnessMany ==
    /\ fn = "uri_from_refid"
    /\ ret.done
    /\ Len(Response) = 2
    /\ ret.val = Raised

(* C11: whatever the temp root, the identifier in every find-by-id request  *)
(* that create_bag sends to the catalog is the asset's reference id.        *)
RequestedRefId(url) ==
    LET eq == CHOOSE i \in 1..Len(url) :
                  url[i] = "=" /\ \A j \in (i + 1)..Len(url) : url[j] # "="
    IN  SubSeq(url, eq + 1, Len(url))

C11_LookupByRefId ==
    \A i \in 1..Len(requests) : RequestedRefId(requests[i]) = RefId

-----------------------------------------------------------------------------
(* Dates: what a call of format_aspace_date is expected to return.         *)

FormatCalled == fn = "format_aspace_date" /\ ret.done

CaseOf(text) == CHOOSE c \in DateCases : c.text = text

PlainForms == {"year", "month", "day"}

MonthLength(y, m) ==
    <<31, 28, 31, 30, 31, 30, 31, 31, 30, 31, 30, 31>>[m]
        + (IF m = 2 /\ ((y % 4 = 0 /\ y % 100 # 0) \/ y % 400 = 0)
           THEN 1 ELSE 0)

OnCalendar(c) == c.d <= MonthLength(c.y, c.m)

DateText(y, m, d) ==
    ToText(y, 4) \o <<"-">> \o ToText(m, 2) \o <<"-">> \o ToText(d, 2)

FirstDay(c) == DateText(c.y, c.m, c.d)

LastDay(c) ==
    IF c.form = "year" THEN DateText(c.y, 12, 31)
    ELSE IF c.form = "month" THEN DateText(c.y, c.m, MonthLength(c.y, c.m))
    ELSE DateText(c.y, c.m, c.d)

IsFullDate(s) ==
    /\ Len(s) = 10
    /\ \A i \in 1..10 : IF i \in {5, 8} THEN s[i] = "-" ELSE IsDigit(s[i])

SingleCalled ==
    /\ FormatCalled
    /\ arg.date_type = "single"
    /\ CaseOf(arg.begin).form \in PlainForms
    /\ OnCalendar(CaseOf(arg.begin))

(* C12 as stated: for a single date given as a year, a year and month or a  *)
(* full date, format_aspace_date returns a begin and an end date that are   *)
(* identical.                                                               *)
C12_SingleBeginEqualsEnd ==
    SingleCalled => ret.val # Raised /\ ret.val[1] = ret.val[2]

(* C12, amended: a single date is taken as both bounds, so the call returns *)
(* the first and the last day of the date's unit; the two are identical     *)
(* exactly when the date is a full date d, which yields (d, d).             *)
C12_SingleSpansItsUnit ==
    SingleCalled =>
        LET c == CaseOf(arg.begin)
        IN  /\ ret.val = <<FirstDay(c), LastDay(c)>>
            /\ (ret.val[1] = ret.val[2]) <=> (c.form = "day")
            /\ c.form = "day" => ret.val = <<arg.begin, arg.begin>>

C12_Witness ==
    /\ FormatCalled
    /\ arg.date_type = "single"
    /\ arg.begin = <<"1", "9", "6", "9">>
    /\ ret.val = <<<<"1", "9", "6", "9", "-", "0", "1", "-", "0", "1">>, <<"1", "9", "6", "9", "-", "1", "2", "-", "3", "1">>>>

(* C13: for a begin/end record whose bounds are each a year, a year and     *)
(* month or a full date, format_aspace_date returns the first day of the    *)
(* begin bound's unit and the last day of the end bound's unit (December    *)
(* 31 for a year, the last calendar day for a month, the day itself).       *)
C13_BoundsSpanUnits ==
    (/\ FormatCalled
     /\ arg.date_type = "inclusive"
     /\ CaseOf(arg.begin).form \in PlainForms
     /\ CaseOf(arg.end).form \in PlainForms
     /\ OnCalendar(CaseOf(arg.begin))
     /\ OnCalendar(CaseOf(arg.end)))
    => ret.val = <<FirstDay(CaseOf(arg.begin)), LastDay(CaseOf(arg.end))>>

C13_Witness ==
    /\ FormatCalled
    /\ arg.date_type = "inclusive"
    /\ arg.begin = <<"1", "9", "0", "0", "-", "0", "4">>
    /\ arg.end = <<"1", "9", "5", "2", "-", "0", "2">>
    /\ ret.val = <<<<"1", "9", "0", "0", "-", "0", "4", "-", "0", "1">>, <<"1", "9", "5", "2", "-", "0", "2", "-", "2", "9">>>>

(* C14: whenever format_aspace_date returns, both values are full dates in  *)
(* the form YYYY-MM-DD, whatever the form of the record's bounds.           *)
C14_FullDatesReturned ==
    (FormatCalled /\ ret.val # Raised)
    => IsFullDate(ret.val[1]) /\ IsFullDate(ret.val[2])

-----------------------------------------------------------------------------
(* Bag metadata.                                                           *)

BagInfoKeys ==
    {"ArchivesSpace_URI", "Start_Date", "End_Date", "Origin", "Rights_ID"}

(* The dates of the run's date records, normalized.                         *)
NormalizedRunDates ==
    { <<<<"1", "9", "5", "0", "-", "0", "1", "-", "0", "1">>, <<"1", "9", "5", "0", "-", "1", "2", "-", "3", "1">>>>, <<<<"1", "9", "5", "0", "-", "0", "3", "-", "0", "1">>, <<"1", "9", "6", "9", "-", "0", "4", "-", "3", "0">>>> }

LookupFailures ==
    {"catalog request failed",
     "results found for search. Expected one result.",
     "date lookup failed"}

FailurePath ==
    {"cleanup_failed_job", "deliver_failure_notification", "returned",
     "raised"}

(* C15: whenever create_bag invokes the bag tool the metadata holds the     *)
(* five keys: the resolved URI, the normalized start and end dates, the     *)
(* origin av_digitization_<media kind> and the rights identifiers; when the *)
(* URI resolution or the date lookup fails the bag tool is not invoked and  *)
(* the run fails.                                                           *)
C15_BagMetadata ==
    /\ bagInfo # NoInfo =>
           /\ DOMAIN bagInfo = BagInfoKeys
           /\ Len(catalog) = 1
           /\ bagInfo.ArchivesSpace_URI = catalog[1]
           /\ <<bagInfo.Start_Date, bagInfo.End_Date>> \in NormalizedRunDates
           /\ format \in {"audio", "video"}
           /\ bagInfo.Origin = <<"av_digitization_", format>>
           /\ bagInfo.Rights_ID = << <<"1">>, <<"2">> >>
    /\ \A i \in 1..Len(log) :
           (log[i].stage = "create_bag" /\ log[i].err \in LookupFailures) =>
               /\ bagInfo = NoInfo
               /\ pc \in FailurePath
               /\ ~Attempted("compress_bag")
               /\ ~Attempted("deliver_success_notification")

C15_Witness ==
    /\ bagInfo # NoInfo
    /\ StageOk("create_bag")
    /\ bagInfo.Start_Date = <<"1", "9", "5", "0", "-", "0", "3", "-", "0", "1">>

C15_WitnessLookupFails ==
    /\ pc = "returned"
    /\ \E i \in 1..Len(log) :
           log[i].stage = "create_bag" /\ log[i].err = "date lookup failed"

-----------------------------------------------------------------------------
(* Compression.                                                            *)

WriteFailed ==
    \E i \in 1..Len(log) :
        log[i].stage = "compress_bag" /\ log[i].err = "OSError: write"

(* C16: when writing the archive fails in compress_bag the package          *)
(* directory is left as it was by compress_bag, with the partly written     *)
(* archive beside it, and the failure handler that follows removes both.    *)
C16_WriteFailureCleanedUp ==
    /\ [][(pc = "compress_bag" /\ WriteFailed') =>
              /\ WorkingDir \in dirs'
              /\ dirs' = dirs
              /\ files' = files \cup {ArchiveFile}
              /\ pc' = "cleanup_failed_job"]_vars
    /\ []((WriteFailed /\ StageOk("cleanup_failed_job")) => LocalClean)

C16_Witness ==
    /\ WriteFailed
    /\ StageOk("cleanup_failed_job")
    /\ pc = "deliver_failure_notification"

(* Extracting an archive in a directory: each entry below that directory.   *)
ExtractIn(d, entries) == {d \o e : e \in entries}

(* C17: when compress_bag succeeds the archive exists at the sibling path   *)
(* <working directory>.tar.gz, the working directory is gone, and the       *)
(* archive's entries are the directory's files at the same relative paths   *)
(* under the directory's name, so that extracting it beside the archive     *)
(* gives back the original files.                                           *)
C17_CompressBag ==
    (fn = "compress_bag" /\ ret.done /\ ret.val.ok) =>
        LET before == {p \in arg : IsUnder(p, WorkingDir)}
        IN  /\ ret.val.ret = ArchiveFile
            /\ ArchiveFile \in files
            /\ WorkingDir \notin dirs
            /\ \A p \in files \cup dirs : ~IsUnder(p, WorkingDir)
            /\ files \ {ArchiveFile} = arg \ before
            /\ tarEntries =
                   {<<RefId>> \o SubSeq(p, Len(WorkingDir) + 1, Len(p)) :
                        p \in before}
            /\ ExtractIn(PathParent(WorkingDir), tarEntries) = before

C17_Witness ==
    /\ fn = "compress_bag"
    /\ ret.done
    /\ ret.val.ok
    /\ tmp_dir = TmpRel
    /\ Cardinality(tarEntries) = Cardinality(TagFiles) + 2

(* C18: from every local state, with the working directory present or      *)
(* absent and the archive present or absent, cleanup_failed_job ends        *)
(* without error with both absent and nothing else touched; a second call   *)
(* raises nothing and changes nothing.                                      *)
C18_CleanupFailedJob ==
    (fn = "cleanup_failed_job" /\ ret.done) =>
        /\ ret.val.ok
        /\ LocalClean
        /\ files = {p \in arg.files :
                        p # ArchiveFile /\ ~IsUnder(p, WorkingDir)}
        /\ dirs = {d \in arg.dirs :
                       d # WorkingDir /\ ~IsUnder(d, WorkingDir)}
        /\ ret.val.calls = 2 =>
               /\ files = ret.val.before.files
               /\ dirs = ret.val.before.dirs

C18_Witness ==
    /\ fn = "cleanup_failed_job"
    /\ ret.done
    /\ ret.val.calls = 2
    /\ WorkingDir \in arg.dirs
    /\ ArchiveFile \in arg.files
    /\ tmp_dir = TmpAbs

C18_WitnessAbsent ==
    /\ fn = "cleanup_failed_job"
    /\ ret.done
    /\ ret.val.calls = 1
    /\ WorkingDir \notin arg.dirs
    /\ ArchiveFile \notin arg.files

-----------------------------------------------------------------------------
(* Delivery of the derivatives.                                            *)

Upload(name, bucket, ext, content_type) ==
    [file |-> WorkingDir \o <<name>>, bucket |-> bucket, key |-> RefId \o ext,
     content_type |-> content_type]

(* The uploads expected for a media kind, in the order of the map.          *)
ExpectedUploads(kind) ==
    IF kind = "video"
    THEN << Upload(MeNameMov, "destination_video_mezz", <<".", "m", "o", "v">>,
                   "video/quicktime"),
            Upload(ANameMp4, "destination_video_access", <<".", "m", "p", "4">>, "video/mp4"),
            Upload(PosterName, "destination_poster", <<".", "p", "n", "g">>, "image/x-png") >>
    ELSE << Upload(ANameMp3, "destination_audio_access", <<".", "m", "p", "3">>, "audio/mpeg") >>

IsUpload(o, e) ==
    /\ o.bucket = e.bucket
    /\ o.key = e.key
    /\ o.content_type = e.content_type
    /\ o.body = e.file

DerivativeObjects == {o \in dest : o.bucket # "destination"}

(* C19: deliver_derivatives uploads each descriptor's file to the           *)
(* descriptor's bucket under the key <refid><extension of the local file>   *)
(* with the descriptor's content type: .mov, .mp4 and .png for video, .mp3  *)
(* for audio; nothing else reaches the derivative buckets.                  *)
C19_DerivativeUploads ==
    LET expected == ExpectedUploads(format)
    IN  /\ \A o \in DerivativeObjects :
               /\ format \in {"audio", "video"}
               /\ \E i \in 1..Len(expected) : IsUpload(o, expected[i])
        /\ StageOk("deliver_derivatives") =>
               \A i \in 1..Len(expected) :
                   \E o \in dest : IsUpload(o, expected[i])

C19_Witness ==
    /\ StageOk("deliver_derivatives")
    /\ format = "video"
    /\ Cardinality(DerivativeObjects) = 3

(* C20: during deliver_derivatives a local file is deleted only once its    *)
(* own upload has succeeded, the derivatives are handled one by one in the  *)
(* order of the map, and no file outside the map is deleted.                *)
C20_DeleteAfterUpload ==
    [][pc = "deliver_derivatives" =>
          LET expected == ExpectedUploads(format)
              removed == files \ files'
              uploaded == dest' \ dest
          IN  /\ files' \subseteq files
              /\ \E k \in 0..Len(expected) :
                     /\ removed = {expected[i].file : i \in 1..k}
                     /\ \A i \in 1..k :
                            \E o \in uploaded : IsUpload(o, expected[i])
                     /\ \A i \in (k + 1)..Len(expected) :
                            /\ expected[i].file \in files =>
                                   expected[i].file \in files'
                            /\ i > k + 1 =>
                                   ~\E o \in uploaded : IsUpload(o, expected[i])
                     /\ (k < Len(expected)) <=> (pc' = "cleanup_failed_job")]_vars

C20_Witness ==
    /\ pc = "cleanup_failed_job"
    /\ StageRaised("deliver_derivatives")
    /\ format = "video"
    /\ Cardinality(DerivativeObjects) = 1
    /\ WorkingDir \o <<MeNameMov>> \notin files
    /\ WorkingDir \o <<ANameMp4>> \in files
    /\ WorkingDir \o <<MaNameMkv>> \in files

-----------------------------------------------------------------------------
(* Delivery of the package.                                                *)

ArchiveObjects == {o \in dest : o.bucket = "destination"}

(* C21: deliver_package uploads the archive to the package bucket under the *)
(* key <refid>.tar.gz with content type application/gzip and deletes the    *)
(* local archive only once that upload has succeeded; when the upload fails *)
(* the local archive is still there for the failure handler.                *)
C21_DeliverPackage ==
    [][pc = "deliver_package" =>
          /\ ArchiveFile \in files
          /\ pc' = "cleanup_successful_job" =>
                 /\ files' = files \ {ArchiveFile}
                 /\ \E o \in dest' \ dest :
                        /\ o.bucket = "destination"
                        /\ o.key = RefId \o TarGz
                        /\ o.content_type = "application/gzip"
                        /\ o.body = ArchiveFile
                        /\ o.entries = tarEntries
                 /\ Cardinality(dest' \ dest) = 1
          /\ pc' # "cleanup_successful_job" =>
                 /\ pc' = "cleanup_failed_job"
                 /\ ArchiveFile \in files'
                 /\ files' = files
                 /\ dest' = dest]_vars

C21_Witness ==
    /\ pc = "cleanup_successful_job"
    /\ StageOk("deliver_package")
    /\ ArchiveFile \notin files
    /\ Cardinality(ArchiveObjects) = 1

C21_WitnessUploadFails ==
    /\ pc = "cleanup_failed_job"
    /\ StageRaised("deliver_package")
    /\ ArchiveFile \in files

-----------------------------------------------------------------------------
(* Staging.                                                                *)

(* download_files has just been left, by return or by exception.            *)
JustStaged == Len(log) = 1 /\ log[1].stage = "download_files"

(* C22: every source object whose key has the reference id as prefix is     *)
(* written by download_files to a local path inside the working directory   *)
(* <temp root>/<refid>/, which is created when absent; no downloaded file    *)
(* lands outside the working directory.                                     *)
C22_DownloadsInsideWorkingDir ==
    JustStaged =>
        /\ WorkingDir \in dirs
        /\ \A p \in files : IsUnder(p, WorkingDir)
        /\ log[1].ok =>
               Cardinality(files) = Cardinality(PrefixKeys(source))

(* C23: whatever the temp root, the list download_files returns is the set  *)
(* of the local paths of the objects that call downloaded, one path for     *)
(* each listed object.                                                      *)
C23_ReturnsDownloadedPaths ==
    (JustStaged /\ log[1].ok) =>
        /\ {downloaded[i] : i \in 1..Len(downloaded)} = files
        /\ Len(downloaded) = Cardinality(PrefixKeys(source))

(* The listing of the reference-id prefix is empty, or the call failed.     *)
ListingUnavailable ==
    /\ log # <<>>
    /\ PrefixKeys(source0) = {} \/ log[1].err = "TransferError: list"

(* C24: when the listing for the reference-id prefix is empty or the        *)
(* listing call fails, download_files raises, nothing is downloaded, and    *)
(* the run goes on to the failure branch, whose handler removes the working *)
(* directory.                                                               *)
C24_NothingToStage ==
    ListingUnavailable =>
        /\ log[1].stage = "download_files"
        /\ ~log[1].ok
        /\ files = {}
        /\ pc \in FailurePath
        /\ \A i \in 1..Len(log) : ~IsForward(log[i].stage) \/ i = 1
        /\ Ended => Attempted("cleanup_failed_job")
        /\ StageOk("cleanup_failed_job") => LocalClean

C24_Witness ==
    /\ Ended
    /\ PrefixKeys(source0) = {}
    /\ KeyOther \in source0
    /\ StageOk("cleanup_failed_job")
    /\ WorkingDir \notin dirs

-----------------------------------------------------------------------------
(* The purge of the source.                                                *)

PurgeCompletes ==
    pc = "cleanup_successful_job" /\ pc' = "deliver_success_notification"

(* C25: once cleanup_successful_job has completed no object whose key has   *)
(* the reference id as prefix remains in the source bucket, and every       *)
(* object whose key lacks that prefix is unchanged.                         *)
C25_PurgeFrame ==
    [][PurgeCompletes =>
          /\ PrefixKeys(source') = {}
          /\ source' \subseteq source
          /\ \A k \in source : ~StartsWith(k, RefId) => k \in source']_vars

C25_Witness ==
    /\ StageOk("cleanup_successful_job")
    /\ PrefixKeys(source0) # {}
    /\ source = {KeyOther}

-----------------------------------------------------------------------------
(* Notifications.                                                          *)

(* The text of the exception that sent run() to its except clause.          *)
CauseOfFailure ==
    LET i == CHOOSE j \in 1..Len(log) : ~log[j].ok /\ IsForward(log[j].stage)
    IN  log[i].err

(* C26: every published notification carries the attributes format (the     *)
(* media kind), refid (the reference id) and outcome; a success             *)
(* notification has outcome SUCCESS and no message attribute, a failure     *)
(* notification has outcome FAILURE and a message attribute that is the     *)
(* text of the exception that caused the failure.                           *)
C26_NotificationAttributes ==
    \A i \in 1..Len(notes) :
        LET n == notes[i]
        IN  /\ {"format", "refid", "outcome"} \subseteq n.attributes
            /\ format \in {"audio", "video"}
            /\ n.format = format
            /\ n.refid = <<"r", "1">>
            /\ n.outcome \in {"SUCCESS", "FAILURE"}
            /\ n.outcome = "SUCCESS" =>
                   /\ "message" \notin n.attributes
                   /\ AllOk
            /\ n.outcome = "FAILURE" =>
                   /\ "message" \in n.attributes
                   /\ ~AllOk
                   /\ n.message = CauseOfFailure

C26_Witness ==
    /\ Len(notes) = 1
    /\ notes[1].outcome = "FAILURE"
    /\ notes[1].message = "BagError"
    /\ notes[1].format = "video"

C26_WitnessSuccess ==
    /\ Len(notes) = 1
    /\ notes[1].outcome = "SUCCESS"

-----------------------------------------------------------------------------
(* The constructor of the earlier iteration.                               *)

(* C27: in the earlier iteration, constructing a Packager with a format     *)
(* other than 'audio' or 'video' raises 'Unable to process format <format>' *)
(* before a storage or notification client is created and before any        *)
(* input or output; with one of the two formats it creates both clients.    *)
C27_InitRejectsFormat ==
    (fn = "init" /\ ret.done) =>
        /\ IdleRun
        /\ NoLocal
        /\ IF arg = "audio" \/ arg = "video"
           THEN /\ ret.val.ok
                /\ format = arg
                /\ ret.val.clients = <<"sns", "s3">>
           ELSE /\ ~ret.val.ok
                /\ ret.val.err = <<"Unable to process format ", arg>>
                /\ ret.val.clients = <<>>
                /\ format = Unset

C27_Witness ==
    /\ fn = "init"
    /\ ret.done
    /\ arg = "text"
    /\ ~ret.val.ok

-----------------------------------------------------------------------------
(* No rollback.                                                            *)

InExceptClause == pc \in {"cleanup_failed_job", "deliver_failure_notification"}

(* C28: an object uploaded to a destination bucket is never deleted or      *)
(* rolled back: what was uploaded before a stage failed is still at its     *)
(* destination when the failure notification is published, and the failure  *)
(* handler changes local state only.                                        *)
C28_NoRollback ==
    [][/\ dest \subseteq dest'
       /\ InExceptClause => dest' = dest /\ source' = source
       /\ pc = "cleanup_failed_job" =>
              /\ notes' = notes
              /\ tarEntries' = tarEntries
              /\ bagInfo' = bagInfo
              /\ files' \subseteq files
              /\ dirs' \subseteq dirs]_vars

C28_Witness ==
    /\ Len(notes) = 1
    /\ notes[1].outcome = "FAILURE"
    /\ format = "video"
    /\ Cardinality(DerivativeObjects) = 2
    /\ ArchiveObjects = {}
    /\ LocalClean

-----------------------------------------------------------------------------
(* Re-running after a failure.                                             *)

AudioKeys == {KeyIn(MaNameWav), KeyIn(ANameMp3)}
VideoKeys == {KeyIn(MaNameMkv), KeyIn(MeNameMov), KeyIn(ANameMp4)}

(* Inputs on which an invocation without failures succeeds: the temp root   *)
(* the staging works with, a complete audio or video asset in the source    *)
(* bucket, one catalog record, and a date record the catalog can format.    *)
Processable ==
    /\ tmp_dir = TmpDot
    /\ PrefixKeys(source0) \in {AudioKeys, VideoKeys}
    /\ Len(catalog) = 1
    /\ \A i \in 1..Len(log) : log[i].err # "ValueError"

SecondRun == {i \in 1..Len(log) : log[i].run = 2}

(* What one invocation without failures leaves at the destinations.         *)
FullyDelivered ==
    /\ Cardinality(ArchiveObjects) = 1
    /\ ArchiveDelivered
    /\ DerivativesDelivered
    /\ Cardinality(DerivativeObjects) = Len(ExpectedUploads(format))

(* C29: after an invocation that ended in failure, a second invocation with *)
(* the same inputs in which no operation fails starts from staging,         *)
(* succeeds, and leaves the destination objects and the empty source prefix *)
(* that a single invocation without failures leaves.                        *)
C29_RerunSucceeds ==
    (invocation = 2 /\ Processable) =>
        /\ SecondRun # {} =>
               log[CHOOSE i \in SecondRun : \A j \in SecondRun : i <= j].stage
                   = "download_files"
        /\ \A i \in SecondRun : log[i].ok
        /\ Ended =>
               /\ pc = "returned"
               /\ FullyDelivered
               /\ PrefixKeys(source) = {}
               /\ notes # <<>>
               /\ notes[Len(notes)].outcome = "SUCCESS"

-----------------------------------------------------------------------------
(* The purge and a concurrent writer.                                      *)

LocalPathOf(k) == PurePath(tmp_dir \o <<"/">> \o k)

(* C30: the purge deletes what a listing made at the purge finds, not what  *)
(* was listed at staging: an object another party wrote under the           *)
(* reference-id prefix between staging and the purge is deleted from the    *)
(* source although it was never downloaded or packaged.                     *)
C30_PurgeDeletesLateObjects ==
    /\ [][PurgeCompletes =>
              /\ PrefixKeys(source') = {}
              /\ \A k \in written : StartsWith(k, RefId) => k \notin source']_vars
    /\ [](\A k \in written \ source0 :
              /\ LocalPathOf(k) \notin files
              /\ \A i \in 1..Len(downloaded) : downloaded[i] # LocalPathOf(k)
              /\ \A o \in dest : o.body # LocalPathOf(k))

C30_Witness ==
    /\ StageOk("cleanup_successful_job")
    /\ \E k \in written : /\ StartsWith(k, RefId)
                           /\ k \notin source0
                           /\ k \notin source

-----------------------------------------------------------------------------
(* The derivative files.                                                   *)

(* C31: once parse_format has accepted the staged files, and the poster     *)
(* step has succeeded for video, every local path of the derivative map of  *)
(* the media kind exists in the working directory, so that                  *)
(* deliver_derivatives never fails for a missing derivative file.           *)
C31_DerivativeFilesExist ==
    /\ pc = "deliver_derivatives" =>
           \A i \in 1..Len(ExpectedUploads(format)) :
               ExpectedUploads(format)[i].file \in files
    /\ \A i \in 1..Len(log) :
           log[i].stage = "deliver_derivatives" =>
               log[i].err # "FileNotFoundError"

(* C32: whenever run() returns to its caller, on the success branch or on   *)
(* the failure branch, neither the working directory <temp root>/<refid>    *)
(* nor the archive <temp root>/<refid>.tar.gz exists locally.               *)
C32_ReturnLeavesNothingLocal ==
    pc = "returned"
        => /\ WorkingDir \notin dirs
           /\ ArchiveFile \notin files
           /\ \A p \in files : ~IsUnder(p, WorkingDir)

(* run() has returned on the failure branch after the archive was written   *)
(* and its delivery failed.                                                 *)
C32_Witness ==
    /\ pc = "returned"
    /\ StageOk("compress_bag")
    /\ StageRaised("deliver_package")
    /\ StageOk("cleanup_failed_job")
    /\ StageOk("deliver_failure_notification")

DoneNow(stage) ==
    \E i \in 1..Len(log) :
        log[i].run = invocation /\ log[i].stage = stage /\ log[i].ok

FailedNow(stage) ==
    \E i \in 1..Len(log) :
        log[i].run = invocation /\ log[i].stage = stage /\ ~log[i].ok

SuccessNotes == {i \in 1..Len(notes) : notes[i].outcome = "SUCCESS"}

(* C33: a SUCCESS notification is published only after every derivative    *)
(* upload, the archive upload and the source purge of the same invocation   *)
(* have completed; when the purge fails no SUCCESS notification is          *)
(* published.                                                               *)
C33_SuccessOnlyAfterPurge ==
    /\ [][SuccessNotes' # SuccessNotes =>
              /\ DoneNow("deliver_derivatives")
              /\ DoneNow("deliver_package")
              /\ DoneNow("cleanup_successful_job")
              /\ FullyDelivered
              /\ PrefixKeys(source) = {}]_vars
    /\ [](FailedNow("cleanup_successful_job") => SuccessNotes = {})

(* The SUCCESS notification of an audio run has been published.             *)
C33_Witness ==
    /\ SuccessNotes # {}
    /\ format = "audio"
    /\ DoneNow("cleanup_successful_job")
    /\ Cardinality(dest) = 2

Commas(text) == {i \in 1..Len(text) : text[i] = ","}

(* The position of the k-th comma of the text; 0 before the first item and  *)
(* one past the end after the last.                                         *)
NthComma(text, k) ==
    IF k = 0 THEN 0
    ELSE IF k > Cardinality(Commas(text)) THEN Len(text) + 1
    ELSE CHOOSE i \in Commas(text) :
             Cardinality({j \in Commas(text) : j <= i}) = k

RawItem(text, k) ==
    SubSeq(text, NthComma(text, k - 1) + 1, NthComma(text, k) - 1)

Trimmed(item) ==
    LET solid == {i \in 1..Len(item) : item[i] # " "}
    IN  IF solid = {} THEN <<>>
        ELSE SubSeq(item,
                    CHOOSE i \in solid : \A j \in solid : i <= j,
                    CHOOSE i \in solid : \A j \in solid : j <= i)

ItemsOf(text) ==
    [k \in 1..(Cardinality(Commas(text)) + 1) |-> Trimmed(RawItem(text, k))]

(* C34: the Rights-ID field handed to the bag tool holds the items of the   *)
(* configured comma-separated rights input, in the same order, each with    *)
(* its surrounding blanks removed, one entry per item.                      *)
C34_RightsIdsAreInputItems ==
    /\ (fn = "rights_ids" /\ ret.done)
           => /\ "Rights_ID" \in DOMAIN bagInfo
              /\ bagInfo.Rights_ID = ItemsOf(arg)
              /\ Len(bagInfo.Rights_ID) = Cardinality(Commas(arg)) + 1
    /\ (fn = "create_bag" /\ ret.done /\ "Rights_ID" \in DOMAIN bagInfo)
           => bagInfo.Rights_ID = ItemsOf(RightsInput)

(* The input " 2,1" has been packaged as the two identifiers 2 and 1.       *)
C34_Witness ==
    /\ fn = "rights_ids"
    /\ ret.done
    /\ ret.val.ok
    /\ arg = <<" ", "2", ",", "1">>
    /\ bagInfo.Rights_ID = << <<"2">>, <<"1">> >>

(* The names of the files an archive holds under <refid>/data/.             *)
PayloadOf(o) ==
    {SubSeq(e, 3, Len(e)) :
         e \in {x \in o.entries : Len(x) > 2 /\ x[1] = RefId /\ x[2] = DataDir}}

StagedNames ==
    {RelativeTo(LocalPathOf(k), WorkingDir) :
         k \in {x \in PrefixKeys(source0) : IsUnder(LocalPathOf(x), WorkingDir)}}

MapNames(kind) ==
    {<<PathName(ExpectedUploads(kind)[i].file)>> :
         i \in 1..Len(ExpectedUploads(kind))}

DerivativeNames == MapNames("audio") \cup MapNames("video")

PayloadIsStagedLessMap ==
    \A o \in ArchiveObjects : PayloadOf(o) = StagedNames \ MapNames(format)

(* C35: the payload of the delivered archive is exactly the staged files    *)
(* that are not in the derivative map, and no mezzanine, access or poster   *)
(* file is inside the archive.                                              *)
C35_PayloadIsMasterOnly ==
    \A o \in ArchiveObjects :
        /\ PayloadOf(o) = StagedNames \ MapNames(format)
        /\ PayloadOf(o) \cap DerivativeNames = {}

(* The keys written so far, whatever the bucket: were several destination   *)
(* buckets configured to be one bucket, two uploads would collide exactly   *)
(* when their keys are equal.                                               *)
UploadedKeys == {o.key : o \in dest}

UploadKeyNames ==
    {RefId \o ext : ext \in {<<".", "m", "o", "v">>, <<".", "m", "p", "4">>,
                              <<".", "p", "n", "g">>, <<".", "m", "p", "3">>,
                              TarGz}}

(* C36: within one invocation no two uploads write the same key, so that no *)
(* upload overwrites another one even when destination buckets coincide:    *)
(* the keys are among <refid>.mov, .mp4, .png, .mp3 and .tar.gz, pairwise   *)
(* distinct, and as many as uploads were made.                              *)
C36_UploadKeysDistinct ==
    /\ \A o1, o2 \in dest : o1 # o2 => o1.key # o2.key
    /\ UploadedKeys \subseteq UploadKeyNames
    /\ DoneNow("deliver_derivatives")
           => Cardinality(UploadedKeys) =
                  Len(ExpectedUploads(format))
                      + (IF DoneNow("deliver_package") THEN 1 ELSE 0)

(* A video run has made its four uploads.                                   *)
C36_Witness ==
    /\ format = "video"
    /\ DoneNow("deliver_package")
    /\ Cardinality(dest) = 4
    /\ Cardinality(UploadedKeys) = 4
====
